---- MODULE Spec2Model ----
(***************************************************************************)
(* Model of the bors merge queue (src/bors/merge_queue.rs).                *)
(*                                                                         *)
(* One repository state record per repository holds the store rows (pull   *)
(* requests, builds), the forge state (branches, check runs, comments) and *)
(* the cooldown.  merge_queue_tick is modelled one repository iteration at *)
(* a time by the operator TickRepo, a function of the repository state and *)
(* of an oracle that gives the outcome of every forge and store call.      *)
(***************************************************************************)
EXTENDS Integers, Sequences, FiniteSets, TLC

VARIABLES
    repos,      \* repository name -> repository state (store rows and forge state)
    registry,   \* ctx.repositories: the repositories a tick iterates, in order
    todo,       \* repositories the running tick still has to visit (<<>>: no tick running)
    last,       \* trace of the latest step: what ran and the calls it made
    behind,     \* per PR: the PRs the sort policy put behind it at the ticks that picked it
    faults,     \* number of calls to the forge and to the store that may still fail
    commands,   \* number of command-handler events so far
    channel,    \* the events buffered in the channel of the queue driver, oldest first
    driver,     \* position of the driver task: "recv", "tick" or "done"
    running,    \* number of executions of merge_queue_tick in progress
    waiting,    \* number of trigger() calls that wait for room in the channel
    timers,     \* per repository: the delayed Triggers scheduled by set_cooldown
    handles     \* the MergeQueueSender handles that callers hold

\* The state of the queue driver and of its senders
queue == <<channel, driver, running, waiting, timers, handles>>

vars == <<repos, registry, todo, last, behind, faults, commands, queue>>

(***************************************************************************)
(* Bounds                                                                  *)
(***************************************************************************)
MaxPR == 2          \* pull requests 1..MaxPR of the repository
MaxPriority == 1    \* priorities and tree thresholds 0..MaxPriority
MaxComments == 2    \* comments of one kind on one PR are counted up to this ("or more")
MaxCommands == 1    \* command-handler events after the approvals, in one run
MaxFaults == 2      \* failing calls to the forge and to the store, in one run
MaxShutdowns == 1   \* Shutdown events buffered in the channel at one time
MaxWaiting == 1     \* trigger() calls that wait for room in the channel at one time
MaxTriggers == 2    \* events buffered when an outside sender calls trigger(), in the runs on progress
MaxHandles == 2     \* MergeQueueSender handles that callers hold at one time

AllRepos == {"r1", "r2"}

(***************************************************************************)
(* Program constants                                                       *)
(***************************************************************************)
AUTO_MERGE_BRANCH_NAME == "automation/bors/auto-merge"
AUTO_BRANCH_NAME == "automation/bors/auto"
AUTO_BUILD_CHECK_RUN_NAME == "Bors auto build"

CooldownStoreFailure == 60
CooldownFastForwardConflict == 5
CooldownValidationFailed == 10

RollupModes == {"always", "iffy", "maybe", "never"}

BuildStatuses == {"pending", "success", "failure", "cancelled", "timeouted"}

(***************************************************************************)
(* Commits.  A commit is the chain of merges that leads to it: <<0>> is    *)
(* main-sha1 and Append(c, p) is the merge of the head of PR p into c.     *)
(* <<>> stands for "no commit" (a branch that does not exist yet).         *)
(***************************************************************************)
NoCommit == <<>>
MainSha == <<0>>
MergeCommit(base_sha, pr) == Append(base_sha, pr)

IsPrefix(a, b) == Len(a) <= Len(b) /\ SubSeq(b, 1, Len(a)) = a

Last(s) == s[Len(s)]

(***************************************************************************)
(* Rows of the store and objects of the forge                              *)
(***************************************************************************)
NoBuild == 0
NoCheckRun == 0
NoPr == 0

CommentKinds == {"started", "success", "push_failed", "conflict", "push_to_auto_failed"}

InitPR == [status |-> "open", priority |-> 0, rollup |-> "maybe",
           mergeable |-> "mergeable", auto_build |-> NoBuild]

InitRepo(n) ==
    [ merge_queue_enabled |-> TRUE,
      has_record |-> TRUE,
      tree_priority |-> 0,
      cooldown |-> 0,
      prs |-> [p \in 1..n |-> InitPR],
      builds |-> <<>>,
      base_history |-> <<MainSha>>,
      auto |-> NoCommit,
      auto_merge |-> NoCommit,
      check_runs |-> <<>>,
      comments |-> [p \in 1..n |-> [k \in CommentKinds |-> 0]] ]

BaseHead(rs) == Last(rs.base_history)

(***************************************************************************)
(* Forge client (contract of GithubRepositoryClient)                       *)
(***************************************************************************)
\* set_branch_to_sha: the outcome of moving a branch that points at cur to sha.
\* out is what the forge answers for reasons outside the model ("ok" when
\* nothing goes wrong); a non-force update to a commit that does not descend
\* from the current head is a FastForwardConflict.
SetBranchToSha(cur, sha, force, out) ==
    IF out # "ok" THEN out
    ELSE IF force = "no" /\ cur # NoCommit /\ ~IsPrefix(cur, sha) THEN "ff_conflict"
    ELSE "ok"

\* post_comment
PostComment(rs, pr, kind) ==
    [rs EXCEPT !.comments[pr][kind] = IF @ < MaxComments THEN @ + 1 ELSE @]

\* create_check_run(name, head_sha, InProgress, output, external_id)
CreateCheckRun(rs, pr, external_id) ==
    [rs EXCEPT !.check_runs = Append(@, [name |-> AUTO_BUILD_CHECK_RUN_NAME,
                                         head |-> pr,
                                         status |-> "in_progress",
                                         conclusion |-> "none",
                                         external_id |-> external_id])]

\* update_check_run(id, Completed, Some(Failure), None)
UpdateCheckRun(rs, id, status, conclusion) ==
    [rs EXCEPT !.check_runs[id].status = status,
               !.check_runs[id].conclusion = conclusion]

(***************************************************************************)
(* Queue store (contract of ctx.db)                                        *)
(***************************************************************************)
BuildStatusOf(rs, p) ==
    IF rs.prs[p].auto_build = NoBuild THEN "none"
    ELSE rs.builds[rs.prs[p].auto_build].status

\* get_merge_queue_prs(repo, min_priority)
GetMergeQueuePrs(rs, priority) ==
    { p \in DOMAIN rs.prs :
        /\ rs.prs[p].status = "approved"
        /\ rs.prs[p].mergeable # "has_conflicts"
        /\ BuildStatusOf(rs, p) \in {"none", "pending", "success"}
        /\ rs.prs[p].priority >= priority }

QueueEntry(rs, p) ==
    [number |-> p, priority |-> rs.prs[p].priority, rollup |-> rs.prs[p].rollup,
     build |-> BuildStatusOf(rs, p)]

\* attach_auto_build(pr, branch, commit_sha, parent): a new pending build row,
\* linked to the PR
AttachAutoBuild(rs, pr, branch, commit_sha, parent) ==
    [rs EXCEPT !.builds = Append(@, [pr |-> pr, branch |-> branch,
                                     commit_sha |-> commit_sha, parent |-> parent,
                                     status |-> "pending",
                                     check_run_id |-> NoCheckRun]),
               !.prs[pr].auto_build = Len(rs.builds) + 1]

UpdateBuildCheckRunId(rs, build_id, id) ==
    [rs EXCEPT !.builds[build_id].check_run_id = id]

UpdateBuildStatus(rs, build_id, status) ==
    [rs EXCEPT !.builds[build_id].status = status]

UpdatePrMergeableState(rs, pr, state) ==
    [rs EXCEPT !.prs[pr].mergeable = state]

SetPrStatus(rs, pr, status) ==
    [rs EXCEPT !.prs[pr].status = status]

(***************************************************************************)
(* Sort policy (utils::sort_queue::sort_queue_prs)                         *)
(***************************************************************************)
BuildRank(b) == CASE b = "success" -> 0 [] b = "pending" -> 1 [] OTHER -> 2

RollupRank(r) ==
    CASE r = "never" -> 0 [] r = "iffy" -> 1 [] r = "maybe" -> 2 [] OTHER -> 3

\* a sorts strictly before b
SortsBefore(a, b) ==
    \/ BuildRank(a.build) < BuildRank(b.build)
    \/ /\ BuildRank(a.build) = BuildRank(b.build)
       /\ \/ a.priority > b.priority
          \/ /\ a.priority = b.priority
             /\ \/ RollupRank(a.rollup) < RollupRank(b.rollup)
                \/ /\ RollupRank(a.rollup) = RollupRank(b.rollup)
                   /\ a.number < b.number

First(entries) == CHOOSE a \in entries : \A b \in entries \ {a} : SortsBefore(a, b)

RECURSIVE sort_queue_prs(_), SortFrom(_, _)
SortFrom(first, entries) == <<first>> \o sort_queue_prs(entries \ {first})

sort_queue_prs(entries) ==
    IF entries = {} THEN <<>> ELSE SortFrom(First(entries), entries)

\* A queue read without the filter on the status of the build
SortedQueueUnfiltered(rs) ==
    sort_queue_prs({ QueueEntry(rs, p) :
                        p \in { q \in DOMAIN rs.prs : /\ rs.prs[q].status = "approved"
                                                      /\ rs.prs[q].mergeable # "has_conflicts" } })

\* A queue that is sorted as if no pull request had a priority
SortedQueueIgnoresPriority(rs) ==
    sort_queue_prs({ [QueueEntry(rs, p) EXCEPT !.priority = 0]
                        : p \in GetMergeQueuePrs(rs, rs.tree_priority) })

\* The sorted merge queue of a repository, as merge_queue_tick computes it.
SortedQueue(rs) ==
    sort_queue_prs({ QueueEntry(rs, p) : p \in GetMergeQueuePrs(rs, rs.tree_priority) })

(***************************************************************************)
(* Cooldown registry (RepositoryState::is_in_cooldown / set_cooldown)      *)
(***************************************************************************)
IsInCooldown(rs) == rs.cooldown > 0

SetCooldown(rs, duration) == [rs EXCEPT !.cooldown = duration]

(***************************************************************************)
(* Outcomes of the calls of one repository iteration.  An oracle o maps    *)
(* every call site to its outcome; "ok" is success.  x is the running      *)
(* iteration: the repository state, the calls made so far and the control  *)
(* flow ("continue": next repository; "return": the tick returns Ok;       *)
(* "error": the tick returns Err through `?`; "panic": unreachable!).      *)
(***************************************************************************)
Sites == {"repo_db", "get_merge_queue_prs", "get_workflows_for_build",
          "post_comment_success", "set_base", "set_pr_status", "update_check_run",
          "update_build_status", "post_comment_push_failed", "get_pull_request",
          "get_branch_sha", "set_auto_merge", "merge_branches", "set_auto",
          "attach_auto_build", "create_check_run", "update_build_check_run_id",
          "update_pr_mergeable_state", "post_comment_started", "post_comment_conflict",
          "post_comment_push_to_auto_failed", "get_workflow_runs_for_commit",
          "cancel_workflows", "reset_auto"}

\* BranchUpdateError, MergeError and the other failures a call site can report.
\* get_workflow_runs_for_commit answers "ok" with runs in progress or queued,
\* "none" with no such run.
FailModes(site) ==
    CASE site = "set_base" -> {"ff_conflict", "validation_failed", "error"}
      [] site = "merge_branches" -> {"conflict", "error"}
      [] site = "get_workflow_runs_for_commit" -> {"none", "error"}
      [] OTHER -> {"error"}

AllOk == [s \in Sites |-> "ok"]

Call(x, site, out, arg) ==
    [x EXCEPT !.calls = Append(@, [site |-> site, out |-> out, arg |-> arg])]

Flow(x, f) == [x EXCEPT !.flow = f]

\* repo.client.post_comment(pr.number, comment).await?
Comment(x, site, pr, kind, arg, o) ==
    LET x1 == Call(x, site, o[site], arg)
    IN IF o[site] # "ok" THEN Flow(x1, "error")
       ELSE [x1 EXCEPT !.rs = PostComment(@, pr, kind)]

(***************************************************************************)
(* attempt_merge                                                           *)
(***************************************************************************)
\* A trial merge on the staging branch as it is, without the reset to the base
AttemptMergeWithoutReset(x, pr, base_sha, o) ==
    LET from == IF x.rs.auto_merge = NoCommit THEN base_sha ELSE x.rs.auto_merge
        r2 == o["merge_branches"]
        merge_sha == MergeCommit(from, pr)
    IN IF r2 = "ok"
       THEN [x |-> [Call(x, "merge_branches", r2, merge_sha)
                       EXCEPT !.rs.auto_merge = merge_sha],
             res |-> "success", merge_sha |-> merge_sha]
       ELSE IF r2 = "conflict"
       THEN [x |-> Call(x, "merge_branches", r2, NoCommit),
             res |-> "conflict", merge_sha |-> NoCommit]
       ELSE [x |-> Call(x, "merge_branches", r2, NoCommit),
             res |-> "error", merge_sha |-> NoCommit]

AttemptMerge(x, pr, base_sha, o) ==
    LET r1 == SetBranchToSha(x.rs.auto_merge, base_sha, "yes", o["set_auto_merge"])
        x1 == Call(x, "set_auto_merge", r1, base_sha)
        \* Reset auto merge branch to point to base branch
        x2 == [x1 EXCEPT !.rs.auto_merge = base_sha]
        r2 == o["merge_branches"]
        \* then merge PR head commit into auto merge branch.
        merge_sha == MergeCommit(base_sha, pr)
    IN IF r1 # "ok" THEN [x |-> x1, res |-> "error", merge_sha |-> NoCommit]
       ELSE IF r2 = "ok"
       THEN [x |-> [Call(x2, "merge_branches", r2, merge_sha)
                       EXCEPT !.rs.auto_merge = merge_sha],
             res |-> "success", merge_sha |-> merge_sha]
       ELSE IF r2 = "conflict"
       THEN [x |-> Call(x2, "merge_branches", r2, NoCommit),
             res |-> "conflict", merge_sha |-> NoCommit]
       ELSE [x |-> Call(x2, "merge_branches", r2, NoCommit),
             res |-> "error", merge_sha |-> NoCommit]

(***************************************************************************)
(* start_auto_build                                                        *)
(***************************************************************************)
\* A check run that is created but whose id is not stored on the build
CreateAutoBuildCheckRunUnrecorded(x, pr, build_id, o) ==
    IF o["create_check_run"] # "ok"
    THEN Call(x, "create_check_run", o["create_check_run"], NoCommit)
    ELSE [Call(x, "create_check_run", "ok", NoCommit)
             EXCEPT !.rs = CreateCheckRun(@, pr, build_id)]

\* 4. Set GitHub check run to pending on PR head
CreateAutoBuildCheckRun(x, pr, build_id, o) ==
    LET r3 == o["create_check_run"]
        r4 == o["update_build_check_run_id"]
        x1 == Call(x, "create_check_run", r3, NoCommit)
        x2 == Call([x1 EXCEPT !.rs = CreateCheckRun(@, pr, build_id)],
                   "update_build_check_run_id", r4, NoCommit)
    IN IF r3 # "ok" THEN x1
       ELSE IF r4 # "ok" THEN x2
       ELSE [x2 EXCEPT !.rs = UpdateBuildCheckRunId(@, build_id, Len(x.rs.check_runs) + 1)]

\* A build start that treats a failed check run like a failed build record
RecordBuildStrictCheckRun(m, x, pr, base_sha, o) ==
    IF o["attach_auto_build"] # "ok"
    THEN [x |-> Call(x, "attach_auto_build", o["attach_auto_build"], m.merge_sha),
          res |-> "FailedToRecordBuild", merge_sha |-> m.merge_sha]
    ELSE [x |-> CreateAutoBuildCheckRun(
                    [Call(x, "attach_auto_build", "ok", m.merge_sha)
                        EXCEPT !.rs = AttachAutoBuild(@, pr, AUTO_BRANCH_NAME,
                                                      m.merge_sha, base_sha)],
                    pr, Len(x.rs.builds) + 1, o),
          res |-> IF o["create_check_run"] = "ok" /\ o["update_build_check_run_id"] = "ok"
                  THEN "ok" ELSE "FailedToRecordBuild",
          merge_sha |-> m.merge_sha]

\* 3. Record the build in the database (m: the merge, x: after the push)
RecordBuild(m, x, pr, base_sha, o) ==
    IF o["attach_auto_build"] # "ok"
    THEN [x |-> Call(x, "attach_auto_build", o["attach_auto_build"], m.merge_sha),
          res |-> "FailedToRecordBuild", merge_sha |-> m.merge_sha]
    ELSE [x |-> CreateAutoBuildCheckRun(
                    [Call(x, "attach_auto_build", "ok", m.merge_sha)
                        EXCEPT !.rs = AttachAutoBuild(@, pr, AUTO_BRANCH_NAME,
                                                      m.merge_sha, base_sha)],
                    pr, Len(x.rs.builds) + 1, o),
          res |-> "ok", merge_sha |-> m.merge_sha]

\* A build start that records the build although the push to the CI branch failed
OnMergeAttemptedRecordsUnpushed(m, pr, base_sha, o) ==
    CASE m.res = "success" ->
            LET r1 == SetBranchToSha(m.x.rs.auto, m.merge_sha, "yes", o["set_auto"])
            IN IF r1 # "ok"
               THEN RecordBuild(m, Call(m.x, "set_auto", r1, m.merge_sha), pr, base_sha, o)
               ELSE RecordBuild(m, [Call(m.x, "set_auto", r1, m.merge_sha)
                                       EXCEPT !.rs.auto = m.merge_sha],
                                pr, base_sha, o)
      [] m.res = "conflict" ->
            LET r == o["update_pr_mergeable_state"]
                x1 == Call(m.x, "update_pr_mergeable_state", r, NoCommit)
            IN IF r # "ok"
               THEN [x |-> x1, res |-> "FailedToMarkAsConflicted", merge_sha |-> NoCommit]
               ELSE [x |-> [x1 EXCEPT !.rs = UpdatePrMergeableState(@, pr, "has_conflicts")],
                     res |-> "MergeConflicts", merge_sha |-> NoCommit]
      [] OTHER -> [x |-> m.x, res |-> "FailedToMerge", merge_sha |-> NoCommit]

\* The arms of `match attempt_merge(...)`, m being what attempt_merge returned
OnMergeAttempted(m, pr, base_sha, o) ==
    CASE m.res = "success" ->
            \* 2. Push merge commit to `AUTO_BRANCH_NAME` where CI runs
            LET r1 == SetBranchToSha(m.x.rs.auto, m.merge_sha, "yes", o["set_auto"])
            IN IF r1 # "ok"
               THEN [x |-> Call(m.x, "set_auto", r1, m.merge_sha),
                     res |-> "FailedToPush", merge_sha |-> m.merge_sha]
               ELSE RecordBuild(m, [Call(m.x, "set_auto", r1, m.merge_sha)
                                       EXCEPT !.rs.auto = m.merge_sha],
                                pr, base_sha, o)
      [] m.res = "conflict" ->
            LET r == o["update_pr_mergeable_state"]
                x1 == Call(m.x, "update_pr_mergeable_state", r, NoCommit)
            IN IF r # "ok"
               THEN [x |-> x1, res |-> "FailedToMarkAsConflicted", merge_sha |-> NoCommit]
               ELSE [x |-> [x1 EXCEPT !.rs = UpdatePrMergeableState(@, pr, "has_conflicts")],
                     res |-> "MergeConflicts", merge_sha |-> NoCommit]
      [] OTHER -> [x |-> m.x, res |-> "FailedToMerge", merge_sha |-> NoCommit]

StartAutoBuild(x, pr, base_sha, o) ==
    OnMergeAttempted(AttemptMerge(x, pr, base_sha, o), pr, base_sha, o)

(***************************************************************************)
(* merge_queue_tick: the selected PR has no build                          *)
(***************************************************************************)
\* Ok(merge_sha): post the "auto build started" comment
OnBuildStarted(x, pr, merge_sha, o) ==
    Comment(x, "post_comment_started", pr, "started", merge_sha, o)

\* Err(FailedToRecordBuild): cancel the workflows of the untracked merge commit
\* and reset the CI branch to the base SHA; failures are logged only.
ResetAutoBranch(x, base_sha, o) ==
    LET r3 == SetBranchToSha(x.rs.auto, base_sha, "yes", o["reset_auto"])
    IN IF r3 = "ok" THEN [Call(x, "reset_auto", r3, base_sha) EXCEPT !.rs.auto = base_sha]
       ELSE Call(x, "reset_auto", r3, base_sha)

\* A rollback that resets the CI branch only when the workflow runs were listed
RecordFailureRollbackInsideIfLet(x, merge_sha, base_sha, o) ==
    LET r1 == o["get_workflow_runs_for_commit"]
        x1 == Call(x, "get_workflow_runs_for_commit", r1, merge_sha)
    IN IF r1 = "ok"
       THEN ResetAutoBranch(Call(x1, "cancel_workflows", o["cancel_workflows"], merge_sha),
                            base_sha, o)
       ELSE x1

RecordFailureRollback(x, merge_sha, base_sha, o) ==
    LET r1 == o["get_workflow_runs_for_commit"]
        x1 == Call(x, "get_workflow_runs_for_commit", r1, merge_sha)
    IN IF r1 = "ok"
       THEN ResetAutoBranch(Call(x1, "cancel_workflows", o["cancel_workflows"], merge_sha),
                            base_sha, o)
       ELSE ResetAutoBranch(x1, base_sha, o)

\* A merge conflict that is only logged, like FailedToMerge
OnAutoBuildStartSilentConflict(s, pr, base_sha, o) ==
    CASE s.res = "ok" -> OnBuildStarted(s.x, pr, s.merge_sha, o)
      [] s.res \in {"FailedToMerge", "MergeConflicts", "FailedToMarkAsConflicted"} -> s.x
      [] s.res = "FailedToPush" ->
            Comment(s.x, "post_comment_push_to_auto_failed", pr,
                    "push_to_auto_failed", s.merge_sha, o)
      [] OTHER -> RecordFailureRollback(s.x, s.merge_sha, base_sha, o)

\* The arms of `match start_auto_build(...)`, s being what start_auto_build returned
OnAutoBuildStart(s, pr, base_sha, o) ==
    CASE s.res = "ok" -> OnBuildStarted(s.x, pr, s.merge_sha, o)
      [] s.res = "FailedToMerge" -> s.x
      [] s.res \in {"MergeConflicts", "FailedToMarkAsConflicted"} ->
            Comment(s.x, "post_comment_conflict", pr, "conflict", NoCommit, o)
      [] s.res = "FailedToPush" ->
            Comment(s.x, "post_comment_push_to_auto_failed", pr,
                    "push_to_auto_failed", s.merge_sha, o)
      [] OTHER -> RecordFailureRollback(s.x, s.merge_sha, base_sha, o)

StartArm(x, pr, o) ==
    LET x1 == Call(x, "get_pull_request", o["get_pull_request"], NoCommit)
        x2 == Call(x1, "get_branch_sha", o["get_branch_sha"], NoCommit)
    IN IF o["get_pull_request"] # "ok" THEN Flow(x1, "error")
       ELSE IF o["get_branch_sha"] # "ok" THEN Flow(x2, "error")
       ELSE OnAutoBuildStart(StartAutoBuild(x2, pr, BaseHead(x.rs), o),
                             pr, BaseHead(x.rs), o)

(***************************************************************************)
(* merge_queue_tick: the selected PR has a build                           *)
(***************************************************************************)
\* The base branch is moved with a forced update
BaseForcePushForced == "yes"

\* ForcePush::No of the update of the base branch
BaseForcePush == "no"

\* A failed store update after the fast-forward that cools down like a conflict
OnFastForwardedShortCooldown(x, pr, o) ==
    LET r == o["set_pr_status"]
        x1 == Call(x, "set_pr_status", r, NoCommit)
    IN IF r = "ok" THEN [x1 EXCEPT !.rs = SetPrStatus(@, pr, "merged")]
       ELSE [x1 EXCEPT !.rs = SetCooldown(@, CooldownFastForwardConflict)]

\* A fast-forward after which the pull request is written back as approved
OnFastForwardedKeepsApproved(x, pr, o) ==
    LET r == o["set_pr_status"]
        x1 == Call(x, "set_pr_status", r, NoCommit)
    IN IF r = "ok" THEN [x1 EXCEPT !.rs = SetPrStatus(@, pr, "approved")]
       ELSE [x1 EXCEPT !.rs = SetCooldown(@, CooldownStoreFailure)]

\* Ok(()) of the fast-forward: mark the PR merged; a store failure sets a
\* cooldown of 60 seconds.
OnFastForwarded(x, pr, o) ==
    LET r == o["set_pr_status"]
        x1 == Call(x, "set_pr_status", r, NoCommit)
    IN IF r = "ok" THEN [x1 EXCEPT !.rs = SetPrStatus(@, pr, "merged")]
       ELSE [x1 EXCEPT !.rs = SetCooldown(@, CooldownStoreFailure)]

\* Any other BranchUpdateError: complete the check run, mark the build failed,
\* post the push-failed comment.
MarkBuildFailed(x, pr, build_id, o) ==
    IF o["update_build_status"] # "ok"
    THEN [Call(x, "update_build_status", o["update_build_status"], NoCommit)
             EXCEPT !.rs = SetCooldown(@, CooldownStoreFailure)]
    ELSE Comment([Call(x, "update_build_status", "ok", NoCommit)
                     EXCEPT !.rs = UpdateBuildStatus(@, build_id, "failure")],
                 "post_comment_push_failed", pr, "push_failed", NoCommit, o)

\* A failed update of the check run that ends the tick like a `?`
OnPushFailedPropagates(x, pr, build_id, o) ==
    LET check_run_id == x.rs.builds[build_id].check_run_id
    IN IF check_run_id = NoCheckRun THEN MarkBuildFailed(x, pr, build_id, o)
       ELSE IF o["update_check_run"] # "ok"
       THEN Flow(Call(x, "update_check_run", o["update_check_run"], NoCommit), "error")
       ELSE MarkBuildFailed([Call(x, "update_check_run", "ok", NoCommit)
                                EXCEPT !.rs = UpdateCheckRun(@, check_run_id,
                                                             "completed", "failure")],
                            pr, build_id, o)

OnPushFailed(x, pr, build_id, o) ==
    LET check_run_id == x.rs.builds[build_id].check_run_id
    IN IF check_run_id = NoCheckRun THEN MarkBuildFailed(x, pr, build_id, o)
       ELSE IF o["update_check_run"] # "ok"
       THEN MarkBuildFailed(Call(x, "update_check_run", o["update_check_run"], NoCommit),
                            pr, build_id, o)
       ELSE MarkBuildFailed([Call(x, "update_check_run", "ok", NoCommit)
                                EXCEPT !.rs = UpdateCheckRun(@, check_run_id,
                                                             "completed", "failure")],
                            pr, build_id, o)

\* A FastForwardConflict arm that forgets the cooldown
OnFastForwardConflictNoCooldown(x, pr, build_id, o) == x

\* A FastForwardConflict arm without its `continue`, which falls through to the
\* handling of the other errors
OnFastForwardConflictFallsThrough(x, pr, build_id, o) ==
    OnPushFailed([x EXCEPT !.rs = SetCooldown(@, CooldownFastForwardConflict)],
                 pr, build_id, o)

\* BranchUpdateError::FastForwardConflict
OnFastForwardConflict(x, pr, build_id, o) ==
    [x EXCEPT !.rs = SetCooldown(@, CooldownFastForwardConflict)]

\* A ValidationFailed arm that gives the build up, so that the queue moves on
OnValidationFailedGivesUp(x, pr, build_id, o) ==
    [x EXCEPT !.rs = UpdateBuildStatus(SetCooldown(@, CooldownValidationFailed),
                                       build_id, "failure")]

\* A ValidationFailed arm without its `continue`, which falls through to the
\* handling of the other errors
OnValidationFailedFallsThrough(x, pr, build_id, o) ==
    OnPushFailed([x EXCEPT !.rs = SetCooldown(@, CooldownValidationFailed)],
                 pr, build_id, o)

\* BranchUpdateError::ValidationFailed
OnValidationFailed(x, pr, build_id, o) ==
    [x EXCEPT !.rs = SetCooldown(@, CooldownValidationFailed)]

\* A tick that marks the pull request merged whatever the update answered
FastForwardUnchecked(x, pr, build_id, commit_sha, o) ==
    OnFastForwarded(Call(x, "set_base",
                         SetBranchToSha(BaseHead(x.rs), commit_sha, BaseForcePush, o["set_base"]),
                         commit_sha),
                    pr, o)

\* match set_branch_to_sha(&pr.base_branch, &commit_sha, ForcePush::No), x being
\* the iteration after the success comment
FastForward(x, pr, build_id, commit_sha, o) ==
    LET r3 == SetBranchToSha(BaseHead(x.rs), commit_sha, BaseForcePush, o["set_base"])
        x3 == Call(x, "set_base", r3, commit_sha)
    IN CASE r3 = "ok" ->
              OnFastForwarded(
                  IF commit_sha = BaseHead(x.rs) THEN x3
                  ELSE [x3 EXCEPT !.rs.base_history = Append(@, commit_sha)],
                  pr, o)
         [] r3 = "ff_conflict" -> OnFastForwardConflict(x3, pr, build_id, o)
         [] r3 = "validation_failed" -> OnValidationFailed(x3, pr, build_id, o)
         [] OTHER -> OnPushFailed(x3, pr, build_id, o)

\* BuildStatus::Success
SuccessArm(x, pr, o) ==
    LET build_id == x.rs.prs[pr].auto_build
        commit_sha == x.rs.builds[build_id].commit_sha
        x1 == Call(x, "get_workflows_for_build", o["get_workflows_for_build"], NoCommit)
    IN IF o["get_workflows_for_build"] # "ok" THEN Flow(x1, "error")
       ELSE IF o["post_comment_success"] # "ok"
       THEN Comment(x1, "post_comment_success", pr, "success", commit_sha, o)
       ELSE FastForward(Comment(x1, "post_comment_success", pr, "success", commit_sha, o),
                        pr, build_id, commit_sha, o)

\* A tick that does not stop at a pending build and starts a build again
PendingArmRestarts(x, pr, o) == StartArm(x, pr, o)

\* BuildStatus::Pending: the queue is blocked on this PR
PendingArm(x, pr, o) == x

\* if let Some(auto_build) = &pr.auto_build { match auto_build.status ... }
ResolveBuild(x, pr, o) ==
    LET status == x.rs.builds[x.rs.prs[pr].auto_build].status
    IN CASE status = "success" -> SuccessArm(x, pr, o)
         [] status = "pending" -> PendingArm(x, pr, o)
         [] OTHER -> Flow(x, "panic")

(***************************************************************************)
(* merge_queue_tick: the body of `for repo in repos`                       *)
(***************************************************************************)
\* The last pull request of the queue instead of the first
SelectLastPr(prs) == prs[Len(prs)].number

\* prs.into_iter().next()
SelectPr(prs) == Head(prs).number

\* let Some(pr) = prs.into_iter().next() else { return Ok(()) }, and what
\* follows; prs is the sorted queue
OnQueue(x, prs, o) ==
    IF prs = <<>> THEN Flow(x, "return")
    ELSE IF x.rs.prs[SelectPr(prs)].auto_build # NoBuild
    THEN ResolveBuild([x EXCEPT !.pr = SelectPr(prs)], SelectPr(prs), o)
    ELSE StartArm([x EXCEPT !.pr = SelectPr(prs)], SelectPr(prs), o)

\* An iteration that does not look at merge_queue_enabled
TickRepoIgnoresConfig(rs, o) ==
    LET x0 == [rs |-> rs, calls |-> <<>>, flow |-> "continue", pr |-> NoPr]
        x1 == Call(x0, "repo_db", o["repo_db"], NoCommit)
        x2 == Call(x1, "get_merge_queue_prs", o["get_merge_queue_prs"], NoCommit)
    IN IF IsInCooldown(rs) THEN x0
       ELSE IF o["repo_db"] # "ok" THEN Flow(x1, "error")
       ELSE IF ~rs.has_record THEN x1
       ELSE IF o["get_merge_queue_prs"] # "ok" THEN Flow(x2, "error")
       ELSE OnQueue(x2, SortedQueue(rs), o)

TickRepo(rs, o) ==
    LET x0 == [rs |-> rs, calls |-> <<>>, flow |-> "continue", pr |-> NoPr]
        x1 == Call(x0, "repo_db", o["repo_db"], NoCommit)
        x2 == Call(x1, "get_merge_queue_prs", o["get_merge_queue_prs"], NoCommit)
    IN IF IsInCooldown(rs) THEN x0
       ELSE IF o["repo_db"] # "ok" THEN Flow(x1, "error")
       ELSE IF ~rs.has_record THEN x1
       ELSE IF ~rs.merge_queue_enabled THEN x1
       ELSE IF o["get_merge_queue_prs"] # "ok" THEN Flow(x2, "error")
       ELSE OnQueue(x2, SortedQueue(rs), o)

\* The oracles that lead to different executions of TickRepo from rs: every
\* call that is made is given each of its outcomes.
Failures(o) == Cardinality({ s \in Sites : o[s] \notin {"ok", "none"} })

RECURSIVE Explore(_, _, _, _), ExploreCalls(_, _, _, _, _)
ExploreCalls(rs, o, k0, n, calls) ==
    {o} \cup UNION { UNION { Explore(rs, [o EXCEPT ![calls[k].site] = m], k, n)
                             : m \in { f \in FailModes(calls[k].site) :
                                         f = "none" \/ Failures(o) < n } }
                     : k \in (k0 + 1)..Len(calls) }

Explore(rs, o, k0, n) == ExploreCalls(rs, o, k0, n, TickRepo(rs, o).calls)

\* The oracles with at most n failing calls
Oracles(rs, n) == Explore(rs, AllOk, 0, n)

(***************************************************************************)
(* State machine                                                           *)
(***************************************************************************)
\* No delayed Trigger: none waits for its deadline (pending), none is due
NoTimers == [pending |-> 0, due |-> 0]

\* The queue driver before it received anything, with an empty channel and
\* the one MergeQueueSender that start_merge_queue returns
DriverIdle ==
    /\ channel = <<>>
    /\ driver = "recv"
    /\ running = 0
    /\ waiting = 0
    /\ timers = [r \in AllRepos |-> NoTimers]
    /\ handles = 1

\* last after a step that is not a tick
NoStep == [op |-> "none", repo |-> "", pr |-> NoPr, calls |-> <<>>, flow |-> "",
           streak |-> 0]

Init ==
    /\ repos = [r \in AllRepos |-> IF r = "r1" THEN InitRepo(MaxPR) ELSE InitRepo(0)]
    /\ registry = <<"r1">>
    /\ todo = <<>>
    /\ last = NoStep
    /\ behind = [r \in AllRepos |-> [p \in DOMAIN repos[r].prs |-> {}]]
    /\ faults = 0
    /\ commands = 0
    /\ DriverIdle

\* A repository with one pull request, and a forge and a store that may fail
\* MaxFaults calls.
InitUnreliable ==
    /\ repos = [r \in AllRepos |-> IF r = "r1" THEN InitRepo(1) ELSE InitRepo(0)]
    /\ registry = <<"r1">>
    /\ todo = <<>>
    /\ last = NoStep
    /\ behind = [r \in AllRepos |-> [p \in DOMAIN repos[r].prs |-> {}]]
    /\ faults = MaxFaults
    /\ commands = 0
    /\ DriverIdle

\* The numbers of the PRs of a queue
Numbers(prs) == { prs[i].number : i \in 1..Len(prs) }

\* The step that runs the iteration x of repository r, the head of list
TickStep(r, list, o, x) ==
    /\ repos' = [repos EXCEPT ![r] = x.rs]
    /\ todo' = IF x.flow = "continue" THEN Tail(list) ELSE <<>>
    /\ last' = [op |-> "tick", repo |-> r, pr |-> x.pr, calls |-> x.calls,
                flow |-> x.flow,
                streak |-> IF todo # <<>> THEN last.streak
                           ELSE IF last.op = "tick" THEN 2 ELSE 1]
    /\ behind' = IF x.pr # NoPr
                 THEN [behind EXCEPT ![r][x.pr] =
                          @ \cup (Numbers(SortedQueue(repos[r])) \ {x.pr})]
                 ELSE behind
    /\ faults' = faults - Failures(o)
    /\ UNCHANGED <<registry, commands>>

\* One iteration of the loop of merge_queue_tick; the first one of a tick takes
\* the snapshot of the registry.
TickOf(list) ==
    \E o \in Oracles(repos[Head(list)], faults) :
        TickStep(Head(list), list, o, TickRepo(repos[Head(list)], o))

\* A tick that is run directly, as tests do with process_merge_queue
Tick == TickOf(IF todo = <<>> THEN registry ELSE todo) /\ UNCHANGED queue

\* A command-handler event that counts towards MaxCommands
Command ==
    /\ commands < MaxCommands
    /\ commands' = commands + 1

\* Command handlers (BorsCommand)
Approve(r, p) ==
    /\ repos[r].prs[p].status = "open"
    /\ repos' = [repos EXCEPT ![r].prs[p].status = "approved"]
    /\ last' = NoStep
    /\ UNCHANGED <<registry, todo, behind, faults, commands, queue>>

Unapprove(r, p) ==
    /\ repos[r].prs[p].status = "approved"
    /\ repos' = [repos EXCEPT ![r].prs[p].status = "open"]
    /\ last' = NoStep
    /\ Command
    /\ UNCHANGED <<registry, todo, behind, faults, queue>>

SetPriority(r, p, priority) ==
    /\ repos[r].prs[p].status \in {"open", "approved"}
    /\ repos[r].prs[p].priority # priority
    /\ repos' = [repos EXCEPT ![r].prs[p].priority = priority]
    /\ last' = NoStep
    /\ Command
    /\ UNCHANGED <<registry, todo, behind, faults, queue>>

TreeClosed(r, priority) ==
    /\ priority > 0
    /\ repos[r].tree_priority # priority
    /\ repos' = [repos EXCEPT ![r].tree_priority = priority]
    /\ last' = NoStep
    /\ Command
    /\ UNCHANGED <<registry, todo, behind, faults, queue>>

OpenTree(r) ==
    /\ repos[r].tree_priority # 0
    /\ repos' = [repos EXCEPT ![r].tree_priority = 0]
    /\ last' = NoStep
    /\ UNCHANGED <<registry, todo, behind, faults, commands, queue>>

\* The mergeable state of a PR as the forge reports it
MergeableStateChanged(r, p, state) ==
    /\ repos[r].prs[p].status \in {"open", "approved"}
    /\ repos[r].prs[p].mergeable # state
    /\ repos' = [repos EXCEPT ![r] = UpdatePrMergeableState(@, p, state)]
    /\ last' = NoStep
    /\ Command
    /\ UNCHANGED <<registry, todo, behind, faults, queue>>

\* CI webhook ingester: a pending build finishes
BuildFinished(r, b, status) ==
    /\ repos[r].builds[b].status = "pending"
    /\ repos' = [repos EXCEPT ![r] = UpdateBuildStatus(@, b, status)]
    /\ last' = NoStep
    /\ UNCHANGED <<registry, todo, behind, faults, commands, queue>>

\* The cooldown deadline of a repository passes
CooldownElapsed(r) ==
    /\ IsInCooldown(repos[r])
    /\ repos' = [repos EXCEPT ![r].cooldown = 0]
    /\ last' = NoStep
    /\ UNCHANGED <<registry, todo, behind, faults, commands, queue>>

CommandHandlers ==
    \/ \E r \in AllRepos : \E p \in DOMAIN repos[r].prs :
          \/ Approve(r, p)
          \/ Unapprove(r, p)
          \/ \E priority \in 0..MaxPriority : SetPriority(r, p, priority)
          \/ \E state \in {"mergeable", "has_conflicts"} : MergeableStateChanged(r, p, state)
    \/ \E r \in AllRepos :
          \/ \E priority \in 1..MaxPriority : TreeClosed(r, priority)
          \/ OpenTree(r)

\* Two pull requests, a forge and a store that never fail, a CI that reports
\* success or failure.
Next ==
    \/ Tick
    \/ CommandHandlers
    \/ \E r \in AllRepos :
          \/ CooldownElapsed(r)
          \/ \E b \in DOMAIN repos[r].builds :
                \E status \in {"success", "failure"} : BuildFinished(r, b, status)

Spec == Init /\ [][Next]_vars

\* One pull request, a forge and a store that fail up to MaxFaults calls, a CI
\* that reports every terminal status.
NextUnreliable ==
    \/ Tick
    \/ CommandHandlers
    \/ \E r \in AllRepos :
          \/ CooldownElapsed(r)
          \/ \E b \in DOMAIN repos[r].builds :
                \E status \in BuildStatuses \ {"pending"} : BuildFinished(r, b, status)

SpecUnreliable == InitUnreliable /\ [][NextUnreliable]_vars

\* Two repositories with one pull request each, the first of which may have
\* the merge queue disabled or no record in the store; a forge and a store that
\* fail fewer than MaxFaults calls.
InitTwoRepos ==
    /\ repos \in { [r \in AllRepos |->
                      IF r = "r1"
                      THEN [InitRepo(1) EXCEPT !.merge_queue_enabled = enabled,
                                               !.has_record = record]
                      ELSE InitRepo(1)] : enabled \in BOOLEAN, record \in BOOLEAN }
    /\ registry = <<"r1", "r2">>
    /\ todo = <<>>
    /\ last = NoStep
    /\ behind = [r \in AllRepos |-> [p \in DOMAIN repos[r].prs |-> {}]]
    /\ faults = MaxFaults - 1
    /\ commands = 0
    /\ DriverIdle

NextTwoRepos ==
    \/ Tick
    \/ \E r \in AllRepos :
          \/ \E p \in DOMAIN repos[r].prs : Approve(r, p)
          \/ CooldownElapsed(r)
          \/ \E b \in DOMAIN repos[r].builds : BuildFinished(r, b, "success")

SpecTwoRepos == InitTwoRepos /\ [][NextTwoRepos]_vars

\* The repository of tests::merge_queue_priority_order: three pull requests,
\* with every choice of priority and rollup mode, and a forge and a store that
\* do not fail.
PriorityOrderPRs == 3

InitPriorityOrder ==
    /\ repos \in { [r \in AllRepos |->
                      IF r = "r1"
                      THEN [InitRepo(PriorityOrderPRs) EXCEPT
                               !.prs = [p \in 1..PriorityOrderPRs |->
                                          [InitPR EXCEPT !.priority = priority[p],
                                                         !.rollup = rollup[p]]]]
                      ELSE InitRepo(0)]
                     : priority \in [1..PriorityOrderPRs -> 0..MaxPriority],
                       rollup \in [1..PriorityOrderPRs -> RollupModes] }
    /\ registry = <<"r1">>
    /\ todo = <<>>
    /\ last = NoStep
    /\ behind = [r \in AllRepos |-> [p \in DOMAIN repos[r].prs |-> {}]]
    /\ faults = 0
    /\ commands = 0
    /\ DriverIdle

NextPriorityOrder ==
    \/ Tick
    \/ \E p \in DOMAIN repos["r1"].prs : Approve("r1", p)
    \/ \E b \in DOMAIN repos["r1"].builds : BuildFinished("r1", b, "success")

SpecPriorityOrder == InitPriorityOrder /\ [][NextPriorityOrder]_vars

(***************************************************************************)
(* Queue driver (start_merge_queue) and MergeQueueSender                   *)
(***************************************************************************)
\* mpsc::channel::<MergeQueueEvent>(10)
ChannelCapacity == 10

\* A send that does not look at the capacity of the channel
TrySendUnbounded(ch, event) == Append(ch, event)

\* mpsc::Sender::try_send on an open channel: the event is buffered when there
\* is room and given up otherwise
TrySend(ch, event) == IF Len(ch) < ChannelCapacity THEN Append(ch, event) ELSE ch

\* A driver that spawns the tick and goes back to the channel
TickSpawned == FALSE

\* merge_queue_tick(...).instrument(span).await: the driver waits for the tick
TickAwaited == TRUE

\* #[cfg(test)]: panic!("Merge queue handler failed")
TickErrorPanics == TRUE

\* #[cfg(not(test))]: span.log_error(error), the loop goes on
TickErrorEscalates == FALSE

\* A driver that goes back to the channel on Shutdown
OnEventIgnoresShutdown(event) == IF event = "Trigger" THEN "tick" ELSE "recv"

\* match event: the position of the driver after it took event from the channel
OnEvent(event) == IF event = "Trigger" THEN "tick" ELSE "done"

\* let sender_clone = sender.clone(), moved into the driver future and lent to
\* every tick: a sender that lives as long as the future runs
SenderClone == IF driver = "done" THEN 0 ELSE 1

\* No sender of the channel is left: the callers dropped their handles, the
\* driver future owns none and no delayed Trigger is still to be sent
NoSenderLeft ==
    /\ handles = 0
    /\ SenderClone = 0
    /\ \A r \in AllRepos : timers[r] = NoTimers

\* last after a step of a sender or of the driver
QueueStep(op, flow) == [NoStep EXCEPT !.op = op, !.flow = flow]

\* self.inner.send(MergeQueueEvent::Trigger).await: an error when the receiver
\* is gone, the event buffered when there is room, and a wait otherwise
SendTrigger ==
    IF driver = "done"
    THEN /\ last' = QueueStep("trigger", "closed")
         /\ UNCHANGED <<channel, waiting>>
    ELSE IF TrySend(channel, "Trigger") # channel
    THEN /\ last' = QueueStep("trigger", "sent")
         /\ channel' = TrySend(channel, "Trigger")
         /\ UNCHANGED waiting
    ELSE /\ waiting < MaxWaiting
         /\ last' = QueueStep("trigger", "waiting")
         /\ waiting' = waiting + 1
         /\ UNCHANGED channel

\* MergeQueueSender::trigger, called by a command handler, a webhook or the
\* periodic timer
TriggerCalled ==
    /\ handles > 0
    /\ SendTrigger
    /\ UNCHANGED <<repos, registry, todo, behind, faults, commands, driver, running, timers,
                   handles>>

\* MergeQueueSender::shutdown: let _ = self.inner.try_send(Shutdown)
ShutdownCalled ==
    /\ handles > 0
    /\ Cardinality({ i \in DOMAIN channel : channel[i] = "Shutdown" }) < MaxShutdowns
    /\ channel' = IF driver = "done" THEN channel ELSE TrySend(channel, "Shutdown")
    /\ last' = QueueStep("shutdown", IF driver = "done" THEN "closed"
                                     ELSE IF channel' # channel THEN "sent"
                                     ELSE "discarded")
    /\ UNCHANGED <<repos, registry, todo, behind, faults, commands, driver, running,
                   waiting, timers, handles>>

\* while let Some(event) = rx.recv().await { match event { ... } }: the driver
\* takes the oldest event; the room it leaves goes to a waiting trigger(), and
\* leaving the loop drops the receiver, which fails the waiting calls. On an
\* empty channel recv() returns None once no sender is left, and the loop ends
Recv ==
    /\ driver = "recv"
    /\ TickAwaited => running = 0
    /\ IF channel # <<>>
       THEN /\ driver' = IF OnEvent(Head(channel)) = "tick" /\ ~TickAwaited THEN "recv"
                         ELSE OnEvent(Head(channel))
            /\ running' = IF OnEvent(Head(channel)) = "tick" THEN running + 1 ELSE running
            /\ channel' = IF OnEvent(Head(channel)) # "done" /\ waiting > 0
                          THEN Append(Tail(channel), "Trigger")
                          ELSE Tail(channel)
            /\ waiting' = IF OnEvent(Head(channel)) = "done" THEN 0
                          ELSE IF waiting > 0 THEN waiting - 1
                          ELSE 0
            /\ last' = QueueStep("recv", Head(channel))
       ELSE /\ NoSenderLeft
            /\ driver' = "done"
            /\ last' = QueueStep("recv", "None")
            /\ UNCHANGED <<channel, running, waiting>>
    /\ UNCHANGED <<repos, registry, todo, behind, faults, commands, timers, handles>>

\* The position of the driver after an iteration of the tick it runs: the
\* tick goes on, or it ended and the driver is back at the channel, unless the
\* tick panicked or its error is escalated
AfterIteration(rest, flow) ==
    IF rest # <<>> THEN driver
    ELSE IF flow = "panic" \/ (flow = "error" /\ TickErrorEscalates) THEN "done"
    ELSE IF driver = "tick" THEN "recv"
    ELSE driver

\* One iteration of the tick that the driver runs; repo.set_cooldown(duration,
\* sender) schedules a delayed Trigger
DriverTick ==
    /\ running > 0
    /\ TickOf(IF todo = <<>> THEN registry ELSE todo)
    /\ driver' = AfterIteration(todo', last'.flow)
    /\ running' = IF todo' = <<>> THEN running - 1 ELSE running
    /\ timers' = IF IsInCooldown(repos'[last'.repo]) /\ ~IsInCooldown(repos[last'.repo])
                 THEN [timers EXCEPT ![last'.repo].pending = @ + 1]
                 ELSE timers
    /\ UNCHANGED <<channel, waiting, handles>>

\* The cooldown deadline of a repository passes: its delayed Triggers are due
DeadlinePassed(r) ==
    /\ IsInCooldown(repos[r])
    /\ repos' = [repos EXCEPT ![r].cooldown = 0]
    /\ timers' = [timers EXCEPT ![r] = [pending |-> 0, due |-> @.due + @.pending]]
    /\ last' = NoStep
    /\ UNCHANGED <<registry, todo, behind, faults, commands, channel, driver, running,
                   waiting, handles>>

\* A delayed Trigger that is due is sent
TimerFired(r) ==
    /\ timers[r].due > 0
    /\ SendTrigger
    /\ timers' = [timers EXCEPT ![r].due = @ - 1]
    /\ UNCHANGED <<repos, registry, todo, behind, faults, commands, driver, running,
                   handles>>

\* The driver with one repository of one pull request, senders that trigger
\* and shut down at any time, and a forge and a store that fail fewer than
\* MaxFaults calls.
InitDriver ==
    /\ repos = [r \in AllRepos |-> IF r = "r1" THEN InitRepo(1) ELSE InitRepo(0)]
    /\ registry = <<"r1">>
    /\ todo = <<>>
    /\ last = NoStep
    /\ behind = [r \in AllRepos |-> [p \in DOMAIN repos[r].prs |-> {}]]
    /\ faults = MaxFaults - 1
    /\ commands = 0
    /\ DriverIdle

NextDriver ==
    \/ TriggerCalled
    \/ ShutdownCalled
    \/ Recv
    \/ DriverTick
    \/ \E r \in AllRepos :
          \/ DeadlinePassed(r)
          \/ TimerFired(r)
          \/ \E p \in DOMAIN repos[r].prs : Approve(r, p)
          \/ \E b \in DOMAIN repos[r].builds : BuildFinished(r, b, "success")

SpecDriver == InitDriver /\ [][NextDriver]_vars

\* #[derive(Clone)] on MergeQueueSender: a caller clones a handle it holds
CloneSender ==
    /\ handles > 0
    /\ handles < MaxHandles
    /\ handles' = handles + 1
    /\ last' = QueueStep("clone", "")
    /\ UNCHANGED <<repos, registry, todo, behind, faults, commands, channel, driver,
                   running, waiting, timers>>

\* A caller drops a handle; the last one is not dropped while a trigger()
\* called on it waits for room
DropSender ==
    /\ handles > 0
    /\ handles = 1 => waiting = 0
    /\ handles' = handles - 1
    /\ last' = QueueStep("drop", "")
    /\ UNCHANGED <<repos, registry, todo, behind, faults, commands, channel, driver,
                   running, waiting, timers>>

\* The driver of SpecDriver with callers that clone and drop their handles.
NextHandles ==
    \/ CloneSender
    \/ DropSender
    \/ NextDriver

\* Buffered events are received, ticks return, deadlines pass and delayed
\* Triggers are sent; nothing is assumed of the callers.
FairHandles ==
    /\ WF_vars(Recv)
    /\ []<>(running = 0)
    /\ \A r \in AllRepos : WF_vars(DeadlinePassed(r)) /\ WF_vars(TimerFired(r))

SpecHandles == InitDriver /\ [][NextHandles]_vars /\ FairHandles

\* A repository with MaxPR pull requests that stay approved, a CI that reports
\* success, and a forge and a store that fail up to MaxFaults calls.
InitRetry ==
    /\ repos = [r \in AllRepos |-> IF r = "r1" THEN InitRepo(MaxPR) ELSE InitRepo(0)]
    /\ registry = <<"r1">>
    /\ todo = <<>>
    /\ last = NoStep
    /\ behind = [r \in AllRepos |-> [p \in DOMAIN repos[r].prs |-> {}]]
    /\ faults = MaxFaults
    /\ commands = 0
    /\ DriverIdle

NextRetry ==
    \/ Tick
    \/ \E r \in AllRepos :
          \/ \E p \in DOMAIN repos[r].prs : Approve(r, p)
          \/ CooldownElapsed(r)
          \/ \E b \in DOMAIN repos[r].builds : BuildFinished(r, b, "success")

SpecRetry == InitRetry /\ [][NextRetry]_vars

\* trigger() called from outside the merge queue while few events are buffered
ExternalTrigger ==
    /\ Len(channel) < MaxTriggers
    /\ TriggerCalled

\* The driver with two repositories of one pull request each, no shutdown, and
\* a forge and a store that fail fewer than MaxFaults calls.
InitWakeUp ==
    /\ repos = [r \in AllRepos |-> InitRepo(1)]
    /\ registry = <<"r1", "r2">>
    /\ todo = <<>>
    /\ last = NoStep
    /\ behind = [r \in AllRepos |-> [p \in DOMAIN repos[r].prs |-> {}]]
    /\ faults = MaxFaults - 1
    /\ commands = 0
    /\ DriverIdle

NextWakeUp ==
    \/ ExternalTrigger
    \/ Recv
    \/ DriverTick
    \/ \E r \in AllRepos :
          \/ DeadlinePassed(r)
          \/ TimerFired(r)
          \/ \E p \in DOMAIN repos[r].prs : Approve(r, p)
          \/ \E b \in DOMAIN repos[r].builds : BuildFinished(r, b, "success")

\* The driver task is scheduled, every tick that started returns, time passes
\* and timers fire; nothing is assumed of the senders, of the approvals and of
\* the CI.
FairWakeUp ==
    /\ WF_vars(Recv)
    /\ []<>(running = 0)
    /\ \A r \in AllRepos : WF_vars(DeadlinePassed(r)) /\ WF_vars(TimerFired(r))

SpecWakeUp == InitWakeUp /\ [][NextWakeUp]_vars /\ FairWakeUp

\* Two repositories with one pull request each, the first of which may have
\* the merge queue disabled; a forge and a store that never fail, merges that
\* never conflict, a CI that reports success.
InitProgress ==
    /\ repos \in { [r \in AllRepos |->
                      IF r = "r1"
                      THEN [InitRepo(1) EXCEPT !.merge_queue_enabled = enabled]
                      ELSE InitRepo(1)] : enabled \in BOOLEAN }
    /\ registry = <<"r1", "r2">>
    /\ todo = <<>>
    /\ last = NoStep
    /\ behind = [r \in AllRepos |-> [p \in DOMAIN repos[r].prs |-> {}]]
    /\ faults = 0
    /\ commands = 0
    /\ DriverIdle

\* The CI ingester reports the success of a pending build of repository r
BuildSucceeds(r) == \E b \in DOMAIN repos[r].builds : BuildFinished(r, b, "success")

NextProgress ==
    \/ ExternalTrigger
    \/ Recv
    \/ DriverTick
    \/ \E r \in AllRepos :
          \/ \E p \in DOMAIN repos[r].prs : Approve(r, p)
          \/ BuildSucceeds(r)

\* Ticks keep being triggered and every tick returns, and the CI eventually
\* reports every pending build; nothing is assumed of the approvals.
FairProgress ==
    /\ []<>(running = 1)
    /\ []<>(running = 0)
    /\ \A r \in AllRepos : WF_vars(BuildSucceeds(r))

SpecProgress == InitProgress /\ [][NextProgress]_vars /\ FairProgress

(***************************************************************************)
(* Properties                                                              *)
(***************************************************************************)
PendingBuilds(r) == { b \in DOMAIN repos[r].builds : repos[r].builds[b].status = "pending" }

\* The step just taken is one iteration of merge_queue_tick
Ticked == last.op = "tick"

\* The outcome of the call at site in the latest iteration ("absent": not called)
Outcome(site) ==
    IF \E i \in DOMAIN last.calls : last.calls[i].site = site
    THEN last.calls[CHOOSE i \in DOMAIN last.calls : last.calls[i].site = site].out
    ELSE "absent"

\* The position of the call at site in the latest iteration (0: not called)
Position(site) ==
    IF \E i \in DOMAIN last.calls : last.calls[i].site = site
    THEN CHOOSE i \in DOMAIN last.calls : last.calls[i].site = site
    ELSE 0

\* C1 (single-flight): in every reachable state every repository has at most
\* one build with status pending.
SingleFlight == \A r \in AllRepos : Cardinality(PendingBuilds(r)) <= 1

\* Every call of the sequence answered with success
AllSucceeded(calls) == \A i \in DOMAIN calls : calls[i].out \in {"ok", "none"}

MergeCommitOf(r, p) == repos[r].builds[repos[r].prs[p].auto_build].commit_sha

Merged(r, p) == repos[r].prs[p].status = "merged"

\* Commit a comes before commit b in the history of the base branch
Before(r, a, b) ==
    \E i, j \in DOMAIN repos[r].base_history :
        i < j /\ repos[r].base_history[i] = a /\ repos[r].base_history[j] = b

\* The history main-sha1, merge-0-pr-1, merge-1-pr-2, ... of n merges in order
RECURSIVE Chain(_)
Chain(n) == IF n = 0 THEN MainSha ELSE Append(Chain(n - 1), n)

\* C3 (order preservation): when two pull requests of a repository are both
\* merged and the sort policy put B behind A at a tick that picked A, the merge
\* commit of A comes before the merge commit of B in the history of the base
\* branch; pull requests 1..n picked in the order of their numbers and all
\* merged leave the history main-sha1, merge-0-pr-1, merge-1-pr-2, ...
OrderPreserved ==
    \A r \in AllRepos :
        /\ \A a, b \in DOMAIN repos[r].prs :
              (Merged(r, a) /\ Merged(r, b) /\ b \in behind[r][a])
                 => Before(r, MergeCommitOf(r, a), MergeCommitOf(r, b))
        /\ (\A a, b \in DOMAIN repos[r].prs :
               Merged(r, a) /\ (a < b => b \in behind[r][a]))
              => repos[r].base_history = [i \in 1..(Len(repos[r].prs) + 1) |-> Chain(i - 1)]

\* Two pull requests are merged, one picked while the other was queued behind it.
MergedInQueueOrder ==
    \E a, b \in DOMAIN repos["r1"].prs :
        /\ Merged("r1", a) /\ Merged("r1", b) /\ b \in behind["r1"][a]
        /\ Len(repos["r1"].base_history) = 3

\* The argument of the call at site in the latest iteration
Argument(site) == last.calls[Position(site)].arg

\* start_auto_build returned FailedToRecordBuild in the latest iteration
FailedToRecordBuild == Ticked /\ Outcome("attach_auto_build") = "error"

\* C4 (no orphans, as claimed): after a tick in which start_auto_build failed
\* with FailedToRecordBuild the CI branch points at the head of the base branch,
\* whatever the workflow cancellation and the branch reset answered.
NoOrphans ==
    FailedToRecordBuild => repos[last.repo].auto = BaseHead(repos[last.repo])

\* C4 (amended): after a tick in which start_auto_build failed with
\* FailedToRecordBuild, the reset of the CI branch to the head of the base
\* branch was attempted whatever the workflow listing and cancellation
\* answered; the CI branch points at the head of the base branch when the reset
\* succeeded and still at the pushed merge commit when it failed.
NoOrphansIfResetSucceeds ==
    FailedToRecordBuild =>
        /\ Outcome("reset_auto") # "absent"
        /\ Argument("reset_auto") = BaseHead(repos[last.repo])
        /\ Outcome("reset_auto") = "ok"
              => repos[last.repo].auto = BaseHead(repos[last.repo])
        /\ Outcome("reset_auto") # "ok"
              => repos[last.repo].auto = Argument("set_auto")

\* The build could not be recorded, the workflow runs could not be listed, and
\* the reset put the CI branch back on the head of the base branch.
RolledBackWithoutCancelling ==
    /\ FailedToRecordBuild
    /\ Outcome("get_workflow_runs_for_commit") = "error"
    /\ Outcome("reset_auto") = "ok"
    /\ repos[last.repo].auto = BaseHead(repos[last.repo])

\* C5 (build status DAG, as claimed): a build whose status has left pending
\* never has its status changed again.
TerminalStatusImmutable ==
    [][\A r \in AllRepos : \A b \in DOMAIN repos[r].builds :
          repos[r].builds[b].status # "pending"
             => repos'[r].builds[b].status = repos[r].builds[b].status]_vars

\* C5 (amended): a build whose status is failure, cancelled or timeouted never
\* has its status changed again, and a build whose status is success only
\* changes to failure, in a tick whose fast-forward of the base branch failed
\* with an error that is neither FastForwardConflict nor ValidationFailed.
SuccessOnlyFailsOnPushError ==
    [][\A r \in AllRepos : \A b \in DOMAIN repos[r].builds :
          (/\ repos[r].builds[b].status # "pending"
           /\ repos'[r].builds[b].status # repos[r].builds[b].status)
             => /\ repos[r].builds[b].status = "success"
                /\ repos'[r].builds[b].status = "failure"
                /\ Ticked'
                /\ Outcome("set_base")' = "error"
                /\ Outcome("update_build_status")' = "ok"]_vars

\* A tick marked a successful build failed after the push to the base branch
\* failed.
BuildFailedAfterPushError ==
    /\ Ticked
    /\ Outcome("set_base") = "error"
    /\ Outcome("post_comment_success") = "ok"
    /\ repos[last.repo].builds[repos[last.repo].prs[last.pr].auto_build].status = "failure"

\* The first pull request of the sorted queue of r has a pending build
BlockedOnPending(r) ==
    /\ SortedQueue(repos[r]) # <<>>
    /\ Head(SortedQueue(repos[r])).build = "pending"

ReadSites == {"repo_db", "get_merge_queue_prs"}

\* C6 (pending blocks the queue): a tick over a repository whose sorted queue
\* starts with a pull request that has a pending build changes nothing for that
\* repository (branches, builds, pull requests, check runs, comments) and calls
\* nothing but the two reads of the store, whatever else is queued.
PendingBlocksQueue ==
    [][(last'.op = "tick" /\ BlockedOnPending(last'.repo))
          => /\ repos'[last'.repo] = repos[last'.repo]
             /\ \A i \in DOMAIN last'.calls : last'.calls[i].site \in ReadSites]_vars

\* A tick stopped at a pending build while an approved pull request without a
\* build was waiting behind it.
TickedWhileBlocked ==
    /\ Ticked
    /\ BlockedOnPending(last.repo)
    /\ last.pr = Head(SortedQueue(repos[last.repo])).number
    /\ \E p \in DOMAIN repos[last.repo].prs :
          /\ p # last.pr
          /\ repos[last.repo].prs[p].status = "approved"
          /\ repos[last.repo].prs[p].auto_build = NoBuild
          /\ p \in Numbers(SortedQueue(repos[last.repo]))

\* The latest iteration took the arm of a pull request without a build, and
\* every call it made succeeded
StartedWithAllCallsOk ==
    /\ Ticked
    /\ Position("get_pull_request") > 0
    /\ AllSucceeded(last.calls)

BuildsOf(r, p) == { b \in DOMAIN repos[r].builds : repos[r].builds[b].pr = p }

\* The state of repository r after a build of pull request p was started on base
BuildStartedOn(r, p, base) ==
    LET rs == repos[r]
        b == rs.prs[p].auto_build
        merge_sha == Append(base, p)
    IN /\ rs.auto = merge_sha
       /\ BuildsOf(r, p) = {b}
       /\ b # NoBuild
       /\ rs.builds[b].status = "pending"
       /\ rs.builds[b].branch = AUTO_BRANCH_NAME
       /\ rs.builds[b].commit_sha = merge_sha
       /\ rs.builds[b].parent = base
       /\ rs.builds[b].check_run_id \in DOMAIN rs.check_runs
       /\ rs.check_runs[rs.builds[b].check_run_id] =
             [name |-> AUTO_BUILD_CHECK_RUN_NAME, head |-> p, status |-> "in_progress",
              conclusion |-> "none", external_id |-> b]
       /\ rs.comments[p]["started"] = 1
       /\ Cardinality({ i \in DOMAIN last.calls :
                          last.calls[i].site = "post_comment_started" }) = 1
       /\ Argument("post_comment_started") = merge_sha

\* C7 (starting a build): after a tick that selected a pull request without a
\* build and in which every call succeeded, the CI branch points at the new
\* merge commit, the pull request has exactly one build row (pending, on the CI
\* branch, with the merge SHA and the base SHA as parent), a check run "Bors
\* auto build" in progress on the pull request carries the build id as external
\* id and its id is stored on the build, and exactly one started comment with
\* the merge SHA was posted; the calls come in the order push, build row, check
\* run, comment.
BuildStartedInOrder ==
    StartedWithAllCallsOk =>
        /\ BuildStartedOn(last.repo, last.pr, BaseHead(repos[last.repo]))
        /\ 0 < Position("set_auto")
        /\ Position("set_auto") < Position("attach_auto_build")
        /\ Position("attach_auto_build") < Position("create_check_run")
        /\ Position("create_check_run") < Position("update_build_check_run_id")
        /\ Position("update_build_check_run_id") < Position("post_comment_started")

\* A tick started the build of the second pull request on top of the merge of
\* the first.
SecondBuildStarted ==
    /\ StartedWithAllCallsOk
    /\ Len(BaseHead(repos[last.repo])) = 2
    /\ repos[last.repo].auto = Append(BaseHead(repos[last.repo]), last.pr)

\* The latest iteration fast-forwarded the base branch and recorded the merge
FastForwardedAndRecorded ==
    /\ Ticked
    /\ Outcome("set_base") = "ok"
    /\ Outcome("set_pr_status") = "ok"

\* C8 (merging a successful build): after a tick in which the non-force
\* fast-forward of the base branch to the merge SHA of the selected pull
\* request's successful build and the store update both succeeded, the head of
\* the base branch is that merge SHA (the history is main-sha1 followed by the
\* merge commit when it is the only merge), the pull request is merged, the
\* build is still success, and the success comment was posted before the
\* fast-forward.
MergedAfterFastForward ==
    FastForwardedAndRecorded =>
        LET rs == repos[last.repo]
            b == rs.prs[last.pr].auto_build
        IN /\ b # NoBuild
           /\ BaseHead(rs) = rs.builds[b].commit_sha
           /\ Argument("set_base") = rs.builds[b].commit_sha
           /\ BaseForcePush = "no"
           /\ (\A q \in DOMAIN rs.prs : q # last.pr => rs.prs[q].status # "merged")
                 => rs.base_history = <<MainSha, Append(MainSha, last.pr)>>
           /\ rs.prs[last.pr].status = "merged"
           /\ rs.builds[b].status = "success"
           /\ 0 < Position("post_comment_success")
           /\ Outcome("post_comment_success") = "ok"
           /\ Position("post_comment_success") < Position("set_base")
           /\ rs.comments[last.pr]["success"] >= 1

\* The only pull request of the repository was merged by the latest tick.
OnlyPrMerged ==
    /\ FastForwardedAndRecorded
    /\ repos[last.repo].prs[last.pr].status = "merged"
    /\ repos[last.repo].base_history = <<MainSha, Append(MainSha, last.pr)>>

\* The fast-forward of the latest iteration failed with an error that is
\* neither FastForwardConflict nor ValidationFailed
PushFailed == Ticked /\ Outcome("set_base") = "error"

\* The check run of build b of repository r is completed with conclusion failure
CheckRunFailed(rs, b) ==
    /\ rs.check_runs[rs.builds[b].check_run_id].status = "completed"
    /\ rs.check_runs[rs.builds[b].check_run_id].conclusion = "failure"

\* C9 (push failure after CI success, as claimed): a tick whose fast-forward
\* fails with another error sets the build to failure, completes its check run
\* with conclusion failure, posts exactly one push-failed comment, sets no
\* cooldown, leaves the base branch unchanged and does not mark the pull
\* request merged.
PushFailureMarksBuildFailed ==
    [][PushFailed' =>
          LET r == last'.repo
              p == last'.pr
              b == repos[last'.repo].prs[last'.pr].auto_build
          IN /\ repos'[r].builds[b].status = "failure"
             /\ repos[r].builds[b].check_run_id # NoCheckRun => CheckRunFailed(repos'[r], b)
             /\ repos'[r].comments[p]["push_failed"] = repos[r].comments[p]["push_failed"] + 1
             /\ repos'[r].cooldown = repos[r].cooldown
             /\ repos'[r].base_history = repos[r].base_history
             /\ repos'[r].prs[p].status # "merged"]_vars

\* C9 (amended): a tick whose fast-forward fails with another error leaves the
\* base branch unchanged and does not mark the pull request merged; it tries to
\* complete the check run of the build (if it has one), which is completed with
\* conclusion failure when that update succeeds, and goes on when it fails; it
\* then tries to set the build to failure: when that succeeds the build is
\* failure, no cooldown is set and one push-failed comment is posted if the
\* post succeeds; when it fails the build stays success, a cooldown of 60
\* seconds is set and no comment is posted.
PushFailureMarksBuildFailedIfStored ==
    [][PushFailed' =>
          LET r == last'.repo
              p == last'.pr
              b == repos[last'.repo].prs[last'.pr].auto_build
          IN /\ repos'[r].base_history = repos[r].base_history
             /\ repos'[r].prs[p] = repos[r].prs[p]
             /\ repos[r].builds[b].check_run_id # NoCheckRun
                   => /\ Outcome("update_check_run")' # "absent"
                      /\ Outcome("update_check_run")' = "ok" => CheckRunFailed(repos'[r], b)
                      /\ Outcome("update_check_run")' # "ok"
                            => repos'[r].check_runs = repos[r].check_runs
             /\ Outcome("update_build_status")' \in {"ok", "error"}
             /\ Outcome("update_build_status")' = "ok"
                   => /\ repos'[r].builds[b].status = "failure"
                      /\ repos'[r].cooldown = 0
                      /\ Outcome("post_comment_push_failed")' # "absent"
                      /\ repos'[r].comments[p]["push_failed"] =
                            repos[r].comments[p]["push_failed"]
                               + (IF Outcome("post_comment_push_failed")' = "ok" THEN 1 ELSE 0)
             /\ Outcome("update_build_status")' = "error"
                   => /\ repos'[r].builds[b].status = "success"
                      /\ repos'[r].cooldown = CooldownStoreFailure
                      /\ Outcome("post_comment_push_failed")' = "absent"
                      /\ repos'[r].comments[p]["push_failed"] =
                            repos[r].comments[p]["push_failed"]]_vars

\* After a failed push the check run was completed, the build set to failure
\* and the push-failed comment posted.
PushFailureReported ==
    /\ PushFailed
    /\ Outcome("update_check_run") = "ok"
    /\ Outcome("update_build_status") = "ok"
    /\ Outcome("post_comment_push_failed") = "ok"
    /\ repos[last.repo].comments[last.pr]["push_failed"] = 1
    /\ repos[last.repo].cooldown = 0

\* The fast-forward of the latest iteration failed with ValidationFailed
ValidationFailed == Ticked /\ Outcome("set_base") = "validation_failed"

\* C10 (validation failure on fast-forward, as claimed): a tick whose
\* fast-forward fails with ValidationFailed sets a cooldown of 10 seconds, marks
\* the build failure, completes the check run with conclusion failure and posts
\* a push-failed comment.
ValidationFailureMarksBuildFailed ==
    [][ValidationFailed' =>
          LET r == last'.repo
              p == last'.pr
              b == repos[last'.repo].prs[last'.pr].auto_build
          IN /\ repos'[r].cooldown = CooldownValidationFailed
             /\ repos'[r].builds[b].status = "failure"
             /\ repos[r].builds[b].check_run_id # NoCheckRun => CheckRunFailed(repos'[r], b)
             /\ repos'[r].comments[p]["push_failed"] >= 1]_vars

\* C10 (amended): a tick whose fast-forward fails with ValidationFailed sets a
\* cooldown of 10 seconds on the repository and goes on to the next repository
\* without any further call: the build keeps status success, its check run is
\* not updated, no push-failed comment is posted, the base branch and the pull
\* request are unchanged.
ValidationFailureOnlyCoolsDown ==
    [][ValidationFailed' =>
          LET r == last'.repo
              p == last'.pr
              b == repos[last'.repo].prs[last'.pr].auto_build
          IN /\ repos'[r].cooldown = CooldownValidationFailed
             /\ repos'[r].builds = repos[r].builds
             /\ repos[r].builds[b].status = "success"
             /\ repos'[r].check_runs = repos[r].check_runs
             /\ repos'[r].comments[p]["push_failed"] = repos[r].comments[p]["push_failed"]
             /\ repos'[r].base_history = repos[r].base_history
             /\ repos'[r].prs = repos[r].prs
             /\ Position("set_base")' = Len(last'.calls)
             /\ last'.flow = "continue"]_vars

\* After a ValidationFailed push the repository cools down for 10 seconds and
\* the build is still success.
CoolingDownAfterValidationFailure ==
    /\ ValidationFailed
    /\ repos[last.repo].cooldown = CooldownValidationFailed
    /\ repos[last.repo].builds[repos[last.repo].prs[last.pr].auto_build].status = "success"
    /\ repos[last.repo].comments[last.pr]["push_failed"] = 0

\* The fast-forward of the latest iteration failed with FastForwardConflict
FastForwardConflict == Ticked /\ Outcome("set_base") = "ff_conflict"

\* C11 (fast-forward conflict): a tick whose fast-forward fails with
\* FastForwardConflict sets a cooldown of 5 seconds on the repository and makes
\* no further call: the build stays success, the pull request stays approved
\* and not merged, the check runs are not updated, no push-failed comment is
\* posted and the base branch is unchanged, so that the pull request is still
\* queued with its successful build for a later tick.
FastForwardConflictOnlyCoolsDown ==
    [][FastForwardConflict' =>
          LET r == last'.repo
              p == last'.pr
              b == repos[last'.repo].prs[last'.pr].auto_build
          IN /\ repos'[r].cooldown = CooldownFastForwardConflict
             /\ repos'[r].builds = repos[r].builds
             /\ repos'[r].builds[b].status = "success"
             /\ repos'[r].prs = repos[r].prs
             /\ repos'[r].prs[p].status = "approved"
             /\ repos'[r].check_runs = repos[r].check_runs
             /\ repos'[r].comments[p]["push_failed"] = repos[r].comments[p]["push_failed"]
             /\ repos'[r].base_history = repos[r].base_history
             /\ repos'[r].auto = repos[r].auto
             /\ Position("set_base")' = Len(last'.calls)
             /\ last'.flow = "continue"
             /\ p \in Numbers(SortedQueue(repos'[r]))]_vars

\* After a FastForwardConflict the repository cools down for 5 seconds and the
\* pull request is not merged.
CoolingDownAfterConflict ==
    /\ FastForwardConflict
    /\ repos[last.repo].cooldown = CooldownFastForwardConflict
    /\ repos[last.repo].prs[last.pr].status = "approved"
    /\ BuildStatusOf(repos[last.repo], last.pr) = "success"

\* The latest iteration fast-forwarded the base branch but could not record it
Diverged ==
    /\ Ticked
    /\ Outcome("set_base") = "ok"
    /\ Outcome("set_pr_status") = "error"

\* The base branch of rs already points at the merge commit of the build of p
AlreadyFastForwarded(rs, p) ==
    /\ p # NoPr
    /\ rs.prs[p].auto_build # NoBuild
    /\ BaseHead(rs) = rs.builds[rs.prs[p].auto_build].commit_sha

\* C12 (divergence recovery): a tick whose fast-forward succeeds and whose
\* set_pr_status(merged) fails sets a cooldown of 60 seconds and leaves the
\* build success, the pull request approved and the base branch on the merge
\* SHA; a later tick whose calls succeed and that selects the pull request
\* while the base branch already points at its merge SHA fast-forwards without
\* error, adds nothing to the history of the base branch and marks the pull
\* request merged.
DivergenceRecovers ==
    [][/\ Diverged' =>
             LET r == last'.repo
                 p == last'.pr
                 b == repos[last'.repo].prs[last'.pr].auto_build
             IN /\ repos'[r].cooldown = CooldownStoreFailure
                /\ repos'[r].builds[b].status = "success"
                /\ repos'[r].prs[p].status = "approved"
                /\ BaseHead(repos'[r]) = repos[r].builds[b].commit_sha
       /\ (/\ Ticked'
           /\ AlreadyFastForwarded(repos[last'.repo], last'.pr)
           /\ AllSucceeded(last'.calls)) =>
             LET r == last'.repo
                 p == last'.pr
                 b == repos[last'.repo].prs[last'.pr].auto_build
             IN /\ Outcome("set_base")' = "ok"
                /\ repos'[r].base_history = repos[r].base_history
                /\ BaseHead(repos'[r]) = repos[r].builds[b].commit_sha
                /\ repos'[r].prs[p].status = "merged"
                /\ repos'[r].builds[b].status = "success"]_vars

\* The base branch was fast-forwarded to the merge commit, the store update
\* failed and the repository cools down for 60 seconds.
DivergedAndCoolingDown ==
    /\ Diverged
    /\ repos[last.repo].cooldown = CooldownStoreFailure
    /\ repos[last.repo].prs[last.pr].status = "approved"
    /\ AlreadyFastForwarded(repos[last.repo], last.pr)
    /\ Len(repos[last.repo].base_history) = 2

\* The merge of the latest iteration reported a conflict
MergeConflict == Ticked /\ Outcome("merge_branches") = "conflict"

\* C13 (merge conflict): a tick whose merge into the staging branch reports a
\* conflict creates no build row and no check run, leaves the CI branch alone
\* and asks the store to mark the pull request has-conflicts; when the store
\* does, the pull request is has-conflicts and the conflict comment is posted
\* after that update; and no tick selects a pull request that is has-conflicts.
MergeConflictReported ==
    [][/\ MergeConflict' =>
             LET r == last'.repo
                 p == last'.pr
             IN /\ repos'[r].builds = repos[r].builds
                /\ repos'[r].prs[p].auto_build = NoBuild
                /\ repos'[r].check_runs = repos[r].check_runs
                /\ repos'[r].auto = repos[r].auto
                /\ Position("set_auto")' = 0
                /\ Position("merge_branches")' < Position("update_pr_mergeable_state")'
                /\ Outcome("update_pr_mergeable_state")' = "ok" =>
                      /\ repos'[r].prs[p].mergeable = "has_conflicts"
                      /\ Position("update_pr_mergeable_state")'
                            < Position("post_comment_conflict")'
                      /\ Outcome("post_comment_conflict")' = "ok" =>
                            repos'[r].comments[p]["conflict"] =
                               repos[r].comments[p]["conflict"] + 1
                      /\ p \notin Numbers(SortedQueue(repos'[r]))
       /\ (last'.op = "tick" /\ last'.pr # NoPr) =>
             repos[last'.repo].prs[last'.pr].mergeable # "has_conflicts"]_vars

\* A pull request was marked has-conflicts and got its conflict comment.
ConflictCommented ==
    /\ MergeConflict
    /\ repos[last.repo].prs[last.pr].mergeable = "has_conflicts"
    /\ repos[last.repo].comments[last.pr]["conflict"] = 1
    /\ repos[last.repo].builds = <<>>

\* C14 (exactly one comment per outcome transition): over any sequence of
\* ticks a pull request has at most one started comment, one success comment
\* and one push-failed comment for each of its builds.
OneCommentPerBuild ==
    \A r \in AllRepos : \A p \in DOMAIN repos[r].prs :
        /\ repos[r].comments[p]["started"] <= Cardinality(BuildsOf(r, p))
        /\ repos[r].comments[p]["success"] <= Cardinality(BuildsOf(r, p))
        /\ repos[r].comments[p]["push_failed"] <= Cardinality(BuildsOf(r, p))

\* The repositories the running tick has not visited yet, the next one first
Remaining == IF todo = <<>> THEN registry ELSE todo

\* C15 (errors are local to a repository): after an iteration in which a call
\* failed, the same tick goes on with the repositories that come next.
ErrorsAreLocal ==
    [][(last'.op = "tick" /\ \E i \in DOMAIN last'.calls : last'.calls[i].out = "error")
          => todo' = Tail(Remaining)]_vars

\* C16 (every tick considers every known repository): after an iteration in
\* which every call succeeded, the same tick goes on with the repositories that
\* come next, whatever the queue of the repository just visited.
EveryRepositoryConsidered ==
    [][(last'.op = "tick" /\ AllSucceeded(last'.calls)) => todo' = Tail(Remaining)]_vars

\* The gate checks of the tick stop at repository rs: it is in cooldown, or
\* its merge queue is disabled, or the store answered that it has no record
Gated(rs, out) ==
    \/ IsInCooldown(rs)
    \/ ~rs.merge_queue_enabled
    \/ out = "ok" /\ ~rs.has_record

\* C17 (gate checks): the iteration of a tick over a repository that is in
\* cooldown, has the merge queue disabled or has no record in the store selects
\* no pull request, changes nothing of the repository (branches, builds, pull
\* requests, check runs, comments) and makes no call but the lookup of the
\* repository record (none at all in cooldown); unless that lookup itself
\* failed, the tick goes on with the next repository.
GatedRepositorySkipped ==
    [][(last'.op = "tick" /\ Gated(repos[last'.repo], Outcome("repo_db")')) =>
          /\ last'.pr = NoPr
          /\ repos' = repos
          /\ \A i \in DOMAIN last'.calls : last'.calls[i].site = "repo_db"
          /\ IsInCooldown(repos[last'.repo]) => last'.calls = <<>>
          /\ Outcome("repo_db")' # "error" =>
                last'.flow = "continue" /\ todo' = Tail(Remaining)]_vars

\* The tick skipped the first repository, whose merge queue is disabled and
\* which has an approved pull request, and goes on with the second.
DisabledRepositorySkipped ==
    /\ Ticked
    /\ last.repo = "r1"
    /\ ~repos["r1"].merge_queue_enabled
    /\ repos["r1"].has_record
    /\ repos["r1"].prs[1].status = "approved"
    /\ repos["r1"].builds = <<>>
    /\ todo = <<"r2">>

\* The push of the merge commit to the CI branch failed in the latest iteration
FailedToPush == Ticked /\ Outcome("set_auto") = "error"

\* The calls start_auto_build makes after the push, and those of the rollback
\* of a build that could not be recorded
AfterPushSites == {"attach_auto_build", "create_check_run", "update_build_check_run_id"}

RollbackSites == {"get_workflow_runs_for_commit", "cancel_workflows", "reset_auto"}

\* C18 (failed push to the CI branch): a tick whose push of the merge commit
\* to the CI branch fails creates no build row and no check run, leaves the
\* pull request without a build and the CI branch where it was, makes none of
\* the later calls of start_auto_build and no rollback, and attempts the
\* push-to-auto-failed comment once, about the merge commit of the pull request
\* on the base head; when the post succeeds the pull request has one more
\* such comment, and no other comment is posted.
PushToAutoFailureReported ==
    [][FailedToPush' =>
          LET r == last'.repo
              p == last'.pr
              site == "post_comment_push_to_auto_failed"
          IN /\ repos'[r].builds = repos[r].builds
             /\ repos'[r].check_runs = repos[r].check_runs
             /\ repos[r].prs[p].auto_build = NoBuild
             /\ repos'[r].prs[p] = repos[r].prs[p]
             /\ repos'[r].auto = repos[r].auto
             /\ \A s \in AfterPushSites \cup RollbackSites : Position(s)' = 0
             /\ Cardinality({ i \in DOMAIN last'.calls : last'.calls[i].site = site }) = 1
             /\ Position("set_auto")' < Position(site)'
             /\ Argument(site)' = MergeCommit(BaseHead(repos[r]), p)
             /\ Argument(site)' = Argument("set_auto")'
             /\ \A k \in DOMAIN repos[r].comments[p] :
                   repos'[r].comments[p][k] =
                      IF k = "push_to_auto_failed" /\ Outcome(site)' = "ok"
                      THEN repos[r].comments[p][k] + 1
                      ELSE repos[r].comments[p][k]]_vars

\* The push to the CI branch failed and the pull request got the comment.
PushToAutoFailureCommented ==
    /\ FailedToPush
    /\ repos[last.repo].comments[last.pr]["push_to_auto_failed"] = 1
    /\ repos[last.repo].builds = <<>>
    /\ repos[last.repo].prs[last.pr].auto_build = NoBuild
    /\ repos[last.repo].prs[last.pr].status = "approved"

\* The check run of the build started in the latest iteration could not be
\* created, or its id could not be stored
CheckRunNotRecorded ==
    /\ Ticked
    /\ \/ Outcome("create_check_run") = "error"
       \/ Outcome("update_build_check_run_id") = "error"

\* C19 (check-run failure is tolerated): a tick in which create_check_run, or
\* the store update of the check-run id, fails after the build row was created
\* leaves the pull request with one new build, pending and without a check-run
\* id, leaves the CI branch at the merge commit, makes no rollback call, and
\* attempts the started comment about that merge commit; when the post succeeds
\* the pull request has one more started comment.
CheckRunFailureTolerated ==
    [][CheckRunNotRecorded' =>
          LET r == last'.repo
              p == last'.pr
              b == repos'[r].prs[p].auto_build
              merge_sha == MergeCommit(BaseHead(repos[r]), p)
          IN /\ Outcome("attach_auto_build")' = "ok"
             /\ Len(repos'[r].builds) = Len(repos[r].builds) + 1
             /\ b = Len(repos'[r].builds)
             /\ repos'[r].builds[b].pr = p
             /\ repos'[r].builds[b].status = "pending"
             /\ repos'[r].builds[b].commit_sha = merge_sha
             /\ repos'[r].builds[b].check_run_id = NoCheckRun
             /\ Outcome("create_check_run")' = "error" =>
                   repos'[r].check_runs = repos[r].check_runs
             /\ repos'[r].auto = merge_sha
             /\ \A s \in RollbackSites : Position(s)' = 0
             /\ Position("post_comment_started")' > 0
             /\ Argument("post_comment_started")' = merge_sha
             /\ Outcome("post_comment_started")' = "ok" =>
                   repos'[r].comments[p]["started"] = repos[r].comments[p]["started"] + 1]_vars

\* A build is pending without a check run and its started comment is posted.
StartedWithoutCheckRun ==
    /\ CheckRunNotRecorded
    /\ Outcome("create_check_run") = "error"
    /\ repos[last.repo].builds[repos[last.repo].prs[last.pr].auto_build].status = "pending"
    /\ repos[last.repo].check_runs = <<>>
    /\ repos[last.repo].comments[last.pr]["started"] = 1

\* The sort key of the selection policy: build (success, pending, none), then
\* priority downwards, then rollup mode, then number
SortKey(rs, p) ==
    <<CASE BuildStatusOf(rs, p) = "success" -> 0
        [] BuildStatusOf(rs, p) = "pending" -> 1
        [] OTHER -> 2,
      MaxPriority - rs.prs[p].priority,
      CASE rs.prs[p].rollup = "never" -> 0
        [] rs.prs[p].rollup = "iffy" -> 1
        [] rs.prs[p].rollup = "maybe" -> 2
        [] OTHER -> 3,
      p>>

\* Lexicographic order of sort keys
KeyLess(a, b) ==
    \E i \in DOMAIN a : a[i] < b[i] /\ \A j \in 1..(i - 1) : a[j] = b[j]

\* The pull requests of repository rs that a tick can act on
Eligible(rs) == GetMergeQueuePrs(rs, rs.tree_priority)

\* b and c were queued behind a at a tick that picked a, and c comes before b
\* by priority, rollup mode and number
QueuedBehind(r, a, b, c) ==
    /\ {b, c} \subseteq behind[r][a]
    /\ b # c
    /\ KeyLess(Tail(SortKey(repos[r], c)), Tail(SortKey(repos[r], b)))

\* C20 (selection policy): an iteration of a tick that passes the gate checks
\* of a repository with eligible pull requests acts on the eligible one whose
\* key (build: success, pending, none; higher priority; rollup never, iffy,
\* maybe, always; lower number) is the least; when an eligible pull request
\* has a build the tick starts no build; and when b and c were queued behind a
\* picked pull request a and c sorts before b, the merges land in the order
\* a, c, b.
SelectionPolicy ==
    [][/\ (last'.op = "tick" /\ Position("get_merge_queue_prs")' > 0
               /\ Outcome("get_merge_queue_prs")' = "ok") =>
             LET rs == repos[last'.repo]
             IN /\ Eligible(rs) = {} <=> last'.pr = NoPr
                /\ Eligible(rs) # {} =>
                      /\ last'.pr \in Eligible(rs)
                      /\ \A q \in Eligible(rs) \ {last'.pr} :
                            KeyLess(SortKey(rs, last'.pr), SortKey(rs, q))
                /\ (\E q \in Eligible(rs) : rs.prs[q].auto_build # NoBuild) =>
                      /\ rs.prs[last'.pr].auto_build # NoBuild
                      /\ Position("set_auto")' = 0
                      /\ Len(repos'[last'.repo].builds) = Len(rs.builds)
       /\ \A r \in AllRepos : \A a, b, c \in DOMAIN repos[r].prs :
             QueuedBehind(r, a, b, c)' =>
                /\ Merged(r, c)' =>
                      /\ Merged(r, a)'
                      /\ Before(r, MergeCommitOf(r, a), MergeCommitOf(r, c))'
                /\ Merged(r, b)' =>
                      /\ Merged(r, c)'
                      /\ Before(r, MergeCommitOf(r, c), MergeCommitOf(r, b))']_vars

\* Pull request 1 was in flight with 2 (no priority) and 3 (the highest
\* priority) queued behind it, and the merges landed in the order 1, 3, 2.
MergedByPriority ==
    /\ repos["r1"].prs[1].priority = 0
    /\ repos["r1"].prs[2].priority = 0
    /\ repos["r1"].prs[3].priority = MaxPriority
    /\ \A p \in DOMAIN repos["r1"].prs : repos["r1"].prs[p].rollup = InitPR.rollup
    /\ {2, 3} \subseteq behind["r1"][1]
    /\ repos["r1"].base_history = <<MainSha, <<0, 1>>, <<0, 1, 3>>, <<0, 1, 3, 2>>>>

\* The statuses of a build that ended without success
FailedStatuses == {"failure", "cancelled", "timeouted"}

TicksSerialised ==
    /\ running <= 1
    /\ running = 1 <=> driver = "tick"
    /\ todo # <<>> => running = 1
    /\ running = 1 => ~ENABLED Recv

\* A tick is in progress while the channel is full and a trigger() waits.
TickingWithFullChannel ==
    /\ driver = "tick"
    /\ running = 1
    /\ Len(channel) = ChannelCapacity
    /\ waiting > 0

\* C23 (shutdown ends the driver): the driver takes the events in the order
\* in which they were buffered; taking a Shutdown it leaves its loop; and once
\* it has left, it takes no event and runs no tick, whatever is still buffered
\* and whatever is sent later.
ShutdownEndsDriver ==
    [][/\ last'.op = "recv" =>
             /\ last'.flow = Head(channel)
             /\ IsPrefix(Tail(channel), channel')
             /\ last'.flow = "Shutdown" => driver' = "done" /\ running' = 0
       /\ (last'.op \in {"trigger", "shutdown"} /\ channel' # channel) =>
             /\ Len(channel') = Len(channel) + 1
             /\ IsPrefix(channel, channel')
       /\ driver = "done" =>
             /\ driver' = "done"
             /\ running' = 0
             /\ last'.op \notin {"tick", "recv"}
             /\ channel' = channel
             /\ repos'.r1.base_history = repos.r1.base_history]_vars

\* The driver left its loop with a Trigger still buffered, and a Trigger sent
\* afterwards found the channel closed.
StoppedWithBufferedTrigger ==
    /\ driver = "done"
    /\ channel # <<>>
    /\ Head(channel) = "Trigger"
    /\ last.op = "trigger"
    /\ last.flow = "closed"

\* C24 (bounded event channel): the channel never holds more than
\* ChannelCapacity events; trigger() buffers its event when there is room and
\* waits otherwise; a waiting trigger() ends only with its Trigger buffered in
\* the room the driver made, or with the driver leaving its loop; shutdown()
\* never waits, and with a full channel its event is given up and the driver
\* is where it was.
ChannelBounded ==
    [][/\ Len(channel') <= ChannelCapacity
       /\ waiting > 0 => Len(channel) = ChannelCapacity
       /\ (last'.op = "trigger" /\ driver # "done") =>
             IF Len(channel) < ChannelCapacity
             THEN channel' = Append(channel, "Trigger") /\ waiting' = waiting
             ELSE channel' = channel /\ waiting' = waiting + 1
       /\ waiting' < waiting =>
             \/ driver' = "done"
             \/ /\ waiting' = waiting - 1
                /\ channel' = Append(Tail(channel), "Trigger")
       /\ last'.op = "shutdown" =>
             /\ waiting' = waiting
             /\ driver' = driver
             /\ running' = running
             /\ Len(channel) = ChannelCapacity =>
                   channel' = channel /\ last'.flow = "discarded"
             /\ (Len(channel) < ChannelCapacity /\ driver # "done") =>
                   channel' = Append(channel, "Shutdown")]_vars

\* shutdown() was called with a full channel while a trigger() waits: the
\* Shutdown is discarded and the driver runs on.
ShutdownDiscarded ==
    /\ last.op = "shutdown"
    /\ last.flow = "discarded"
    /\ Len(channel) = ChannelCapacity
    /\ waiting > 0
    /\ driver # "done"

\* C25 (a failing tick does not stop the driver): after a tick that returned
\* an error the driver is back at the channel; there it takes the next event
\* whenever one is buffered, a Trigger starts a tick and a Shutdown ends the
\* loop.
FailingTickKeepsDriver ==
    [][/\ (last'.op = "tick" /\ last'.flow = "error") =>
             /\ driver' = "recv"
             /\ running' = 0
       /\ (driver = "recv" /\ channel # <<>>) => ENABLED Recv
       /\ last'.op = "recv" =>
             /\ last'.flow = "Trigger" => driver' = "tick" /\ running' = 1
             /\ last'.flow = "Shutdown" => driver' = "done"]_vars

\* A tick returned an error and the driver is back at the channel, in which a
\* Trigger and a Shutdown are buffered.
DriverAfterFailedTick ==
    /\ Ticked
    /\ last.flow = "error"
    /\ driver = "recv"
    /\ channel = <<"Trigger", "Shutdown">>

\* The latest step is an iteration of a tick that passed the cooldown check of
\* repository r
Processed(r) == Ticked /\ last.repo = r /\ last.calls # <<>>

\* C26 (cooldown wake-up): whenever a repository is in cooldown, a tick
\* eventually runs that finds it out of cooldown and processes it again, by
\* the delayed Trigger alone.
CooldownWakeUp ==
    \A r \in AllRepos : IsInCooldown(repos[r]) ~> Processed(r)

\* Commit c is a direct child of commit base: the merge of one pull request
ChildOf(c, base) == Len(c) = Len(base) + 1 /\ SubSeq(c, 1, Len(base)) = base

\* C27 (trial merge on the staging branch): every merge of an iteration comes
\* after a successful forced reset of the staging branch to the base head of
\* that iteration, and when that reset fails no merge is attempted; a merge
\* that succeeds leaves the staging branch at a direct child of the base head;
\* and the CI branch is moved by a tick only, to such a merge commit or, in the
\* rollback, to the base head.
TrialMergeOnBaseHead ==
    [][/\ (last'.op = "tick" /\ Position("set_auto_merge")' > 0) =>
             LET r == last'.repo
                 base == BaseHead(repos[r])
             IN /\ Argument("set_auto_merge")' = base
                /\ Outcome("set_auto_merge")' # "ok" =>
                      /\ Position("merge_branches")' = 0
                      /\ Position("set_auto")' = 0
                      /\ repos'[r].auto_merge = repos[r].auto_merge
                /\ Position("merge_branches")' > 0 =>
                      /\ Outcome("set_auto_merge")' = "ok"
                      /\ Position("set_auto_merge")' < Position("merge_branches")'
                /\ Outcome("merge_branches")' = "ok" =>
                      /\ ChildOf(Argument("merge_branches")', base)
                      /\ Last(Argument("merge_branches")') = last'.pr
                      /\ repos'[r].auto_merge = Argument("merge_branches")'
                /\ Outcome("merge_branches")' \in {"conflict", "error"} =>
                      repos'[r].auto_merge = base
       /\ (last'.op = "tick" /\ Position("set_auto_merge")' = 0) =>
             repos'[last'.repo].auto_merge = repos[last'.repo].auto_merge
       /\ \A r \in AllRepos :
             repos'[r].auto # repos[r].auto =>
                /\ last'.op = "tick" /\ last'.repo = r
                /\ \/ /\ Outcome("set_auto")' = "ok"
                      /\ repos'[r].auto = Argument("merge_branches")'
                      /\ ChildOf(repos'[r].auto, BaseHead(repos[r]))
                   \/ /\ Outcome("reset_auto")' = "ok"
                      /\ repos'[r].auto = BaseHead(repos[r])]_vars

\* A build was started after an earlier attempt whose push to the CI branch
\* had failed: the staging branch was reset and holds the base and one merge.
MergedOnResetStaging ==
    /\ Ticked
    /\ Outcome("set_auto_merge") = "ok"
    /\ Outcome("set_auto") = "ok"
    /\ repos[last.repo].comments[last.pr]["push_to_auto_failed"] = 1
    /\ repos[last.repo].auto_merge = <<0, 1>>
    /\ repos[last.repo].auto = <<0, 1>>

\* The commits of the history of the base branch of repository r
BaseCommits(r) == { repos[r].base_history[i] : i \in DOMAIN repos[r].base_history }

\* C28 (the base branch and merged): the base branch moves only in a tick, by
\* a successful non-force update, by one commit, which is the merge SHA of the
\* selected pull request's build, read as success; a pull request becomes
\* merged only in a tick that selected it, after the update of the base branch
\* succeeded in that tick; and every merged pull request has the merge commit
\* of its build in the history of the base branch.
BaseMovedByFastForwardOnly ==
    [][\A r \in AllRepos :
          /\ repos'[r].base_history # repos[r].base_history =>
                /\ last'.op = "tick" /\ last'.repo = r
                /\ Outcome("set_base")' = "ok"
                /\ BaseForcePush = "no"
                /\ BuildStatusOf(repos[r], last'.pr) = "success"
                /\ Argument("set_base")' = MergeCommitOf(r, last'.pr)
                /\ repos'[r].base_history =
                      Append(repos[r].base_history, MergeCommitOf(r, last'.pr))
                /\ IsPrefix(BaseHead(repos[r]), MergeCommitOf(r, last'.pr))
          /\ \A p \in DOMAIN repos[r].prs :
                /\ (Merged(r, p)' /\ ~Merged(r, p)) =>
                      /\ last'.op = "tick" /\ last'.repo = r /\ last'.pr = p
                      /\ Outcome("set_base")' = "ok"
                      /\ Outcome("set_pr_status")' = "ok"
                      /\ Position("set_base")' < Position("set_pr_status")'
                /\ Merged(r, p)' =>
                      /\ repos'[r].prs[p].auto_build # NoBuild
                      /\ MergeCommitOf(r, p)' \in BaseCommits(r)']_vars

\* The pull request was marked merged by a tick that retried after the store
\* had failed: the base branch already was at its merge commit.
MergedOnRetry ==
    /\ Ticked
    /\ Outcome("set_base") = "ok"
    /\ Merged(last.repo, last.pr)
    /\ repos[last.repo].comments[last.pr]["success"] = 2
    /\ repos[last.repo].base_history = <<MainSha, <<0, 1>>>>

\* The fast-forward of the latest iteration failed with FastForwardConflict or
\* ValidationFailed
FastForwardRefused == Ticked /\ Outcome("set_base") \in {"ff_conflict", "validation_failed"}

\* The eligible pull requests of repository rs whose build succeeded
Succeeded(rs) == { p \in Eligible(rs) : BuildStatusOf(rs, p) = "success" }

\* C29 (the queue stays blocked on a refused fast-forward): an iteration whose
\* fast-forward fails with FastForwardConflict or ValidationFailed leaves the
\* pull request approved, unmerged and eligible, its build success and the base
\* branch where it was, and starts no build; and as long as an eligible pull
\* request has a successful build, every iteration that reads the queue
\* selects such a pull request (that one, when it is the only one) and starts
\* no build for any pull request.
BlockedOnRefusedFastForward ==
    [][/\ FastForwardRefused' =>
             LET r == last'.repo
                 p == last'.pr
             IN /\ repos'[r].prs = repos[r].prs
                /\ repos[r].prs[p].status = "approved"
                /\ repos'[r].builds = repos[r].builds
                /\ BuildStatusOf(repos'[r], p) = "success"
                /\ repos'[r].base_history = repos[r].base_history
                /\ p \in Succeeded(repos'[r])
                /\ IsInCooldown(repos'[r])
                /\ Position("set_auto")' = 0
       /\ (last'.op = "tick" /\ Outcome("get_merge_queue_prs")' = "ok"
               /\ Succeeded(repos[last'.repo]) # {}) =>
             LET r == last'.repo
             IN /\ last'.pr \in Succeeded(repos[r])
                /\ Position("get_pull_request")' = 0
                /\ Position("set_auto")' = 0
                /\ Len(repos'[r].builds) = Len(repos[r].builds)
                /\ \A q \in DOMAIN repos[r].prs :
                      q # last'.pr => repos'[r].prs[q] = repos[r].prs[q]]_vars

\* The fast-forward of pull request 1 was refused for the second time while
\* pull request 2 is approved and waits without a build.
RefusedAgain ==
    /\ FastForwardRefused
    /\ last.pr = 1
    /\ repos[last.repo].comments[1]["success"] = 2
    /\ repos[last.repo].prs[2].status = "approved"
    /\ repos[last.repo].prs[2].auto_build = NoBuild
    /\ Len(repos[last.repo].builds) = 1

\* C30 (queue progress): with ticks that keep being triggered, calls that
\* succeed, merges that do not conflict and a CI that reports success, every
\* approved pull request of an enabled repository is eventually merged,
\* whatever the queues of the other repositories hold.
QueueProgress ==
    \A r \in AllRepos :
        (repos[r].merge_queue_enabled /\ repos[r].prs[1].status = "approved")
            ~> Merged(r, 1)

\* C31 (termination without a delivered Shutdown): once the callers dropped
\* every MergeQueueSender handle, the driver handles what is buffered and then
\* leaves its receive loop, also when no Shutdown was ever buffered.
DriverEndsWithoutSenders == (handles = 0) ~> (driver = "done")

====
